---- MODULE Spec2Model ----
(***************************************************************************)
(* Contact-enrichment backend: the contact store, the history service, the *)
(* session-authenticated HTTP routes and the merge/split predictor.        *)
(*                                                                         *)
(* The specifications share the variables:                                *)
(*   Spec          the Flask application driven by the HTTP requests of    *)
(*                 one client, whose cookie is the session;                *)
(*   SpecService   ContactManagementService and HistoryService called      *)
(*                 directly, for registered users;                         *)
(*   SpecPredictor the ContactAIPredictor instance;                        *)
(*   SpecSuggestions the suggestion routes; SpecFeedback the feedback      *)
(*                 service; SpecWorkflow the orchestrator.                 *)
(***************************************************************************)
EXTENDS Integers, Sequences, FiniteSets, TLC

\* ------------------------------------------------------------------ bounds
MaxUsers == 2
MaxContacts == 4
MaxHistory == 3
MaxOps == 3

VARIABLES
    users,              \* rows of table users
    nextUserId,         \* users.id serial
    session,            \* session["user_id"] of the client's cookie, or NoSession
    contacts,           \* rows of table contacts
    nextContactId,      \* number of contact ids handed out so far
    relationships,      \* rows of table contact_relationships
    nextRelationshipId, \* contact_relationships.id serial
    suggestions,        \* rows of table suggestions
    nextSuggestionId,   \* suggestions.id serial
    feedback,           \* feedback service: rows of table feedback, in id order
    tables_created,     \* feedback service: hasattr(app, 'tables_created')
    tables_created_lock,\* feedback service: the thread holding the lock, or NoThread
    create_all_calls,   \* feedback service: how often db.create_all() has run
    pc,                 \* feedback service: where each worker thread is
    payload,            \* feedback service: the JSON body each thread is serving
    requests,           \* feedback service: requests accepted so far
    history,            \* rows of table contact_history, in id order
    merge_patterns,     \* ContactAIPredictor.merge_patterns
    split_patterns,     \* ContactAIPredictor.split_patterns
    rejection_patterns, \* ContactAIPredictor.rejection_patterns
    bots,               \* orchestrator: BotManager.bots
    services,           \* orchestrator: ServiceRegistry.services
    feedback_data,      \* orchestrator: AdaptiveLearning.feedback_data
    last,               \* the last call or request and what it answered
    steps               \* calls or requests made so far

vars == <<users, nextUserId, session, contacts, nextContactId, relationships,
          nextRelationshipId, history, merge_patterns, split_patterns, rejection_patterns,
          suggestions, nextSuggestionId, feedback, tables_created, tables_created_lock,
          create_all_calls, pc, payload, requests, bots, services, feedback_data,
          last, steps>>

dbVars == <<users, nextUserId, contacts, nextContactId, relationships,
           nextRelationshipId, history>>
predictorVars == <<merge_patterns, split_patterns, rejection_patterns>>
relVars == <<relationships, nextRelationshipId>>
\* what no operation on users, contacts, relationships or history touches
suggestionVars == <<suggestions, nextSuggestionId>>
feedbackVars == <<feedback, tables_created, tables_created_lock, create_all_calls, pc,
                 payload, requests>>
workflowVars == <<bots, services, feedback_data>>
restVars == <<predictorVars, suggestionVars, feedbackVars, workflowVars>>

\* ------------------------------------------------------------ Python values
PyNone == [t |-> "None"]
EmptyDict == [t |-> "dict", n |-> 0]
Dict(rec) == [t |-> "dict", n |-> 1, v |-> rec]
PyList(items) == [t |-> "list", items |-> items]

\* bool(v) as Python evaluates it in `x if v else None`
Truthy(v) ==
    CASE v.t = "None" -> FALSE
      [] v.t = "dict" -> v.n > 0
      [] v.t = "list" -> Len(v.items) > 0
      [] v.t = "str"  -> TRUE

\* json.dumps(v, default=str): a non-empty string that decodes to v
json_dumps(v) == [t |-> "str", json |-> v]
json_loads(s) == s.json

\* A Python call binds when every keyword names a parameter and every
\* required parameter is given; otherwise it raises TypeError before the body.
CallBinds(kwargs, params, required) ==
    /\ kwargs \subseteq params
    /\ required \subseteq kwargs

\* ------------------------------------------------------------------ domains
NoSession == 0
UserIds == 1..MaxUsers
\* the users on whose behalf the services are called directly
ServiceUsers == {1, 2}
ContactIdNames == <<"c1", "c2", "c3", "c4", "c5", "c6", "c7", "c8", "c9">>
ContactId(n) == ContactIdNames[n]
BACKUP == "BACKUP"

NoNotes == [isNone |-> TRUE, frags |-> <<>>]
Notes(frags) == [isNone |-> FALSE, frags |-> frags]

\* request bodies of POST /contacts (the other scalar columns, first_name,
\* last_name, organization, title, related_names and explorium_data, are
\* copied exactly like full_name and are left out)
ContactInputs ==
    { [full_name |-> "Ann", emails |-> <<"e1">>, phones |-> <<"p1", "p2">>,
       tags |-> <<"t1">>, notes |-> Notes(<<"n1">>)],
      [full_name |-> "Bob", emails |-> <<"e2">>, phones |-> <<"p1">>,
       tags |-> <<>>, notes |-> NoNotes] }

\* updated_data of PUT /contacts/<id>: one key and its value
UpdateInputs ==
    { [key |-> "full_name", value |-> "Cy"],
      [key |-> "nickname", value |-> "x"] }
      \cup { [key |-> "user_id", value |-> u] : u \in ServiceUsers }

\* phone_to_split of POST /contacts/split_phone
PhoneInputs == {"p1", "p2"}

ContactAttrs == {"id", "user_id", "full_name", "emails", "phones", "tags", "notes"}

\* Contact.to_dict
to_dict(c) == Dict(c)

ContactOf(u, cid) == { c \in contacts : c.id = cid /\ c.user_id = u }
UserExists(u) == \E x \in users : x.id = u

SetLast(op, via, u, outcome, status, error, ref) ==
    last' = [op |-> op, user |-> u, outcome |-> outcome,
             status |-> status, error |-> error, ref |-> ref]

\* one more call or request, up to the bound on the length of a run
Step == steps < MaxOps /\ steps' = steps + 1

\* ---------------------------------------------------------- HistoryService
LogActionParams ==
    {"user_id", "contact_id", "action_type", "before_data", "after_data",
     "description", "request_info"}
LogActionRequired == {"user_id", "contact_id", "action_type"}

HistoryEntry(hist, u, cid, action_type, before_data, after_data) ==
    [id |-> Len(hist) + 1, user_id |-> u, contact_id |-> cid,
     action_type |-> action_type,
     before_data |-> IF Truthy(before_data) THEN json_dumps(before_data) ELSE PyNone,
     after_data |-> IF Truthy(after_data) THEN json_dumps(after_data) ELSE PyNone]

\* log_action as an upsert: an entry of the same user and contact is overwritten
log_action_Upsert(hist, u, cid, action_type, before_data, after_data) ==
    LET same == { i \in 1..Len(hist) : hist[i].user_id = u /\ hist[i].contact_id = cid } IN
    IF ~UserExists(u) THEN hist
    ELSE IF same = {}
         THEN Append(hist, HistoryEntry(hist, u, cid, action_type, before_data, after_data))
         ELSE LET i == CHOOSE x \in same : TRUE IN
              [hist EXCEPT ![i] = [HistoryEntry(hist, u, cid, action_type, before_data,
                                                after_data) EXCEPT !.id = i]]

\* HistoryService.log_action: the table after the call. The insert violates
\* the foreign key contact_history.user_id when the user does not exist; the
\* except branch rolls back and nothing is stored.
log_action(hist, u, cid, action_type, before_data, after_data) ==
    IF UserExists(u)
    THEN Append(hist, HistoryEntry(hist, u, cid, action_type, before_data, after_data))
    ELSE hist

\* the lookup of undo_action with filter_by(id=history_id) alone
HistoryEntryOf_AnyUser(u, hid) ==
    { h \in { history[i] : i \in 1..Len(history) } : h.id = hid }

\* the entry undo_action looks up: filter_by(id=history_id, user_id=user_id).first()
HistoryEntryOf(u, hid) ==
    { h \in { history[i] : i \in 1..Len(history) } : h.id = hid /\ h.user_id = u }

\* ------------------------------------------------- ContactManagementService
\* the keywords _log_history passes to HistoryService.log_action
LogHistoryKwargs ==
    {"contact_id", "user_id", "action", "before_data", "after_data",
     "timestamp", "request_info"}

LogHistoryBinds == CallBinds(LogHistoryKwargs, LogActionParams, LogActionRequired)

\* ContactManagementService._log_history: the history table after the call.
\* It dumps both snapshots to JSON and hands them to log_action by keyword;
\* when the call does not bind, TypeError is raised and nothing is logged.
_log_history(hist, u, cid, action, before_data, after_data) ==
    IF LogHistoryBinds
    THEN log_action(hist, u, cid, action, json_dumps(before_data), json_dumps(after_data))
    ELSE hist

\* what a service method that reached _log_history ends with
LoggedOutcome == IF LogHistoryBinds THEN "success" ELSE "raise"

\* the route returns jsonify(result) (200) whatever result["success"] is; an
\* exception leaving the handler is answered 500
HttpStatus(via, outcome) ==
    IF via = "http" THEN (IF outcome = "raise" THEN 500 ELSE 200) ELSE 0

\* a row of contact_relationships references the contact (foreign keys
\* contact_id_1, contact_id_2, both NOT NULL)
ReferencedByRelationship(cid) ==
    \E r \in relationships : r.contact_id_1 = cid \/ r.contact_id_2 = cid

NewContact(n, u, full_name, emails, phones, tags, notes) ==
    [id |-> ContactId(n), user_id |-> u, full_name |-> full_name,
     emails |-> emails, phones |-> phones, tags |-> tags, notes |-> notes]

\* Contact.id is a String primary key with no default and the service passes
\* none: the insert stores a row only where the database supplies the id, and
\* raises otherwise
InsertOutcomes == {"id generated", "no id"}

create_contact(u, data, via) ==
    /\ nextContactId < MaxContacts
    /\ \E ins \in InsertOutcomes :
       IF ~UserExists(u) \/ ins = "no id"
       THEN \* commit violates contacts.user_id -> users.id, or the key is NULL
            /\ UNCHANGED <<contacts, nextContactId, history>>
            /\ SetLast("create_contact", via, u, "raise", HttpStatus(via, "raise"), "", "")
       ELSE LET new == NewContact(nextContactId + 1, u, data.full_name, data.emails,
                                  data.phones, data.tags, data.notes)
            IN /\ contacts' = contacts \cup {new}
               /\ nextContactId' = nextContactId + 1
               /\ history' = _log_history(history, u, new.id, "create", EmptyDict, to_dict(new))
               /\ SetLast("create_contact", via, u, LoggedOutcome,
                          HttpStatus(via, LoggedOutcome), "", new.id)
    /\ UNCHANGED <<users, nextUserId, session, relVars, restVars>>

\* for key, value in updated_data.items(): if hasattr(contact, key): setattr
ApplyUpdate(c, upd) ==
    IF upd.key \in ContactAttrs THEN [c EXCEPT ![upd.key] = upd.value] ELSE c

update_contact(u, cid, upd, via) ==
    /\ LET found == ContactOf(u, cid) IN
       IF found = {}
       THEN /\ UNCHANGED <<contacts, history>>
            /\ SetLast("update_contact", via, u, "error", HttpStatus(via, "error"),
                       "Contact not found", cid)
       ELSE LET c == CHOOSE x \in found : TRUE
                c2 == ApplyUpdate(c, upd)
            IN IF ~UserExists(c2.user_id)
               THEN \* commit violates contacts.user_id -> users.id
                    /\ UNCHANGED <<contacts, history>>
                    /\ SetLast("update_contact", via, u, "raise", HttpStatus(via, "raise"), "", cid)
               ELSE /\ contacts' = (contacts \ {c}) \cup {c2}
                    /\ history' = _log_history(history, u, c2.id, "update", to_dict(c), to_dict(c2))
                    /\ SetLast("update_contact", via, u, LoggedOutcome,
                               HttpStatus(via, LoggedOutcome), "", cid)
    /\ UNCHANGED <<users, nextUserId, session, nextContactId, relVars, restVars>>

delete_contact(u, cid, via) ==
    /\ LET found == ContactOf(u, cid) IN
       IF found = {}
       THEN /\ UNCHANGED <<contacts, history>>
            /\ SetLast("delete_contact", via, u, "error", HttpStatus(via, "error"),
                       "Contact not found", cid)
       ELSE LET c == CHOOSE x \in found : TRUE IN
            IF ReferencedByRelationship(cid)
            THEN \* the delete nulls a NOT NULL foreign key: IntegrityError
                 /\ UNCHANGED <<contacts, history>>
                 /\ SetLast("delete_contact", via, u, "raise", HttpStatus(via, "raise"), "", cid)
            ELSE /\ contacts' = contacts \ {c}
                 /\ history' = _log_history(history, u, cid, "delete", to_dict(c), EmptyDict)
                 /\ SetLast("delete_contact", via, u, LoggedOutcome,
                            HttpStatus(via, LoggedOutcome), "", cid)
    /\ UNCHANGED <<users, nextUserId, session, nextContactId, relVars, restVars>>

HasValue(x) == x # ""
Range(sq) == { sq[i] : i \in 1..Len(sq) }

\* log one entry per contact of `cs`, in order (the loops over new_contacts
\* and other_contacts)
RECURSIVE LogEach(_, _, _, _, _)
LogEach(hist, u, cs, action, created) ==
    IF cs = <<>> THEN hist
    ELSE LogEach(_log_history(hist, u, cs[1].id, action,
                              IF created THEN EmptyDict ELSE to_dict(cs[1]),
                              IF created THEN to_dict(cs[1]) ELSE EmptyDict),
                 u, Tail(cs), action, created)

split_phone(u, cid, phone, via) ==
    /\ nextContactId < MaxContacts
    /\ \E ins \in InsertOutcomes :
       LET found == ContactOf(u, cid) IN
       IF found = {}
       THEN /\ UNCHANGED <<contacts, nextContactId, history>>
            /\ SetLast("split_phone", via, u, "error", HttpStatus(via, "error"),
                       "Original contact not found", cid)
       ELSE IF ins = "no id"
       THEN \* the commit fails as a whole: the phone stays on the original
            /\ UNCHANGED <<contacts, nextContactId, history>>
            /\ SetLast("split_phone", via, u, "raise", HttpStatus(via, "raise"), "", cid)
       ELSE LET c == CHOOSE x \in found : TRUE
                new == NewContact(nextContactId + 1, u, c.full_name, <<>>, <<phone>>,
                                  c.tags, Notes(<<"Split from contact ID", c.id>>))
                c2 == [c EXCEPT !.phones = SelectSeq(c.phones, LAMBDA p : p # phone)]
            IN /\ contacts' = (contacts \ {c}) \cup {c2, new}
               /\ nextContactId' = nextContactId + 1
               /\ history' = _log_history(
                                 _log_history(history, u, c.id, "split_phone_original",
                                              to_dict(c), to_dict(c2)),
                                 u, new.id, "split_phone_new", EmptyDict, to_dict(new))
               /\ SetLast("split_phone", via, u, LoggedOutcome,
                          HttpStatus(via, LoggedOutcome), "", new.id)
    /\ UNCHANGED <<users, nextUserId, session, relVars, restVars>>

\* the contacts split_all creates: one per valued email, then one per valued
\* phone, ids in the order they were added to the session
SplitAllNew(c, u, n) ==
    LET em == SelectSeq(c.emails, HasValue)
        ph == SelectSeq(c.phones, HasValue)
    IN [i \in 1..(Len(em) + Len(ph)) |->
          IF i <= Len(em)
          THEN NewContact(n + i, u, c.full_name, <<em[i]>>, <<>>, c.tags,
                          Notes(<<"Split from contact ID", c.id, "(email)">>))
          ELSE NewContact(n + i, u, c.full_name, <<>>, <<ph[i - Len(em)]>>, c.tags,
                          Notes(<<"Split from contact ID", c.id, "(phone)">>))]

split_all(u, cid, via) ==
    /\ LET found == ContactOf(u, cid) IN
       IF found = {}
       THEN /\ UNCHANGED <<contacts, nextContactId, history>>
            /\ SetLast("split_all", via, u, "error", HttpStatus(via, "error"),
                       "Original contact not found", cid)
       ELSE LET c == CHOOSE x \in found : TRUE
                new == SplitAllNew(c, u, nextContactId)
            IN /\ nextContactId + Len(new) <= MaxContacts
               /\ \E ins \in InsertOutcomes :
                  IF ReferencedByRelationship(cid) \/ (ins = "no id" /\ Len(new) > 0)
                  THEN \* the delete nulls a NOT NULL foreign key, or an insert
                       \* has no key: nothing of the transaction is stored
                       /\ UNCHANGED <<contacts, nextContactId, history>>
                       /\ SetLast("split_all", via, u, "raise", HttpStatus(via, "raise"), "", cid)
                  ELSE /\ contacts' = (contacts \ {c}) \cup Range(new)
                       /\ nextContactId' = nextContactId + Len(new)
                       /\ history' = _log_history(
                                         LogEach(history, u, new, "split_all_new", TRUE),
                                         u, c.id, "split_all_original_deleted",
                                         to_dict(c), EmptyDict)
                       /\ SetLast("split_all", via, u, LoggedOutcome,
                                  HttpStatus(via, LoggedOutcome), "", cid)
    /\ UNCHANGED <<users, nextUserId, session, relVars, restVars>>

\* primary.emails.extend([e for e in other.emails if e not in primary.emails])
ExtendUnique(base, extra) == base \o SelectSeq(extra, LAMBDA e : e \notin Range(base))

NotesTruthy(n) == ~n.isNone /\ n.frags # <<>>

\* primary.notes = (primary.notes or "") + (f"\nMerged from ..." if other.notes else "")
MergeNotes(n, other) ==
    Notes((IF NotesTruthy(n) THEN n.frags ELSE <<>>)
          \o (IF NotesTruthy(other.notes)
              THEN <<"Merged from contact ID", other.id>> \o other.notes.frags
              ELSE <<>>))

\* emails, phones and tags are plain JSON columns: list.extend on the loaded
\* value is an in-place mutation the session does not see, so the commit
\* does not write it and the refresh reloads the stored lists
InPlaceJsonMutationPersists == FALSE

RECURSIVE MergeInto(_, _)
MergeInto(primary, others) ==
    IF others = <<>> THEN primary
    ELSE MergeInto(
            [primary EXCEPT
               !.emails = IF InPlaceJsonMutationPersists
                          THEN ExtendUnique(@, others[1].emails) ELSE @,
               !.phones = IF InPlaceJsonMutationPersists
                          THEN ExtendUnique(@, others[1].phones) ELSE @,
               !.tags = IF InPlaceJsonMutationPersists
                        THEN ExtendUnique(@, others[1].tags) ELSE @,
               !.notes = MergeNotes(@, others[1])],
            Tail(others))

\* the orders in which .all() may return the rows (the query has no ORDER BY)
Orderings(S) ==
    { sq \in [1..Cardinality(S) -> S] : \A i, j \in 1..Cardinality(S) : sq[i] = sq[j] => i = j }

merge_contacts(u, ids, via) ==
    /\ LET found == { c \in contacts : c.id \in ids /\ c.user_id = u } IN
       IF Cardinality(found) < 2
       THEN /\ UNCHANGED <<contacts, history>>
            /\ SetLast("merge_contacts", via, u, "error", HttpStatus(via, "error"),
                       "At least two contacts are required for merging", "")
       ELSE \E contacts_to_merge \in Orderings(found) :
            LET primary == contacts_to_merge[1]
                others == Tail(contacts_to_merge)
                merged == MergeInto(primary, others)
            IN /\ IF LogHistoryBinds /\ ~\E o \in Range(others) : ReferencedByRelationship(o.id)
                  THEN /\ contacts' = (contacts \ found) \cup {merged}
                       /\ history' = LogEach(
                                        _log_history(history, u, primary.id, "merge_primary",
                                                     to_dict(primary), to_dict(merged)),
                                        u, others, "merge_deleted", FALSE)
                  ELSE \* the first commit stored the primary; the exception
                       \* leaves the other contacts in place
                       /\ contacts' = (contacts \ {primary}) \cup {merged}
                       /\ history' = _log_history(history, u, primary.id, "merge_primary",
                                                  to_dict(primary), to_dict(merged))
               /\ SetLast("merge_contacts", via, u, LoggedOutcome,
                          HttpStatus(via, LoggedOutcome), "",
                          [primary |-> primary.id,
                           merged |-> { o.id : o \in Range(others) }])
    /\ UNCHANGED <<users, nextUserId, session, nextContactId, relVars, restVars>>

\* the methods the models define: ContactRelationship has columns and a
\* __repr__ only, so relationship.to_dict() raises AttributeError
ModelMethods ==
    [Contact |-> {"to_dict"}, ContactHistory |-> {"to_dict"},
     ContactRelationship |-> {"__repr__"}]
RelationshipHasToDict == "to_dict" \in ModelMethods.ContactRelationship

RelationshipTypes == {"friend"}

\* the row add_relationship inserts: id is the table's serial
NewRelationship(n, u, contact_id_1, contact_id_2, relationship_type) ==
    [id |-> n, user_id |-> u, contact_id_1 |-> contact_id_1,
     contact_id_2 |-> contact_id_2, relationship_type |-> relationship_type]

\* the existing-relationship query: either direction, any owner
RelationshipBetween(contact_id_1, contact_id_2) ==
    { r \in relationships :
        \/ r.contact_id_1 = contact_id_1 /\ r.contact_id_2 = contact_id_2
        \/ r.contact_id_1 = contact_id_2 /\ r.contact_id_2 = contact_id_1 }

\* add_relationship commits the row and then evaluates
\* new_relationship.to_dict() for the first _log_history call
add_relationship(u, contact_id_1, contact_id_2, relationship_type, via) ==
    /\ IF contact_id_1 = contact_id_2
       THEN /\ UNCHANGED <<relVars, history>>
            /\ SetLast("add_relationship", via, u, "error", HttpStatus(via, "error"),
                       "Cannot create a relationship with self", 0)
       ELSE IF ContactOf(u, contact_id_1) = {} \/ ContactOf(u, contact_id_2) = {}
       THEN /\ UNCHANGED <<relVars, history>>
            /\ SetLast("add_relationship", via, u, "error", HttpStatus(via, "error"),
                       "One or both contacts not found", 0)
       ELSE IF RelationshipBetween(contact_id_1, contact_id_2) # {}
       THEN /\ UNCHANGED <<relVars, history>>
            /\ SetLast("add_relationship", via, u, "error", HttpStatus(via, "error"),
                       "Relationship already exists", 0)
       ELSE LET new == NewRelationship(nextRelationshipId + 1, u, contact_id_1,
                                       contact_id_2, relationship_type)
            IN /\ relationships' = relationships \cup {new}
               /\ nextRelationshipId' = nextRelationshipId + 1
               /\ IF RelationshipHasToDict
                  THEN /\ history' = _log_history(
                                         _log_history(history, u, contact_id_1,
                                                      "add_relationship", EmptyDict, Dict(new)),
                                         u, contact_id_2, "add_relationship", EmptyDict,
                                         Dict(new))
                       /\ SetLast("add_relationship", via, u, LoggedOutcome,
                                  HttpStatus(via, LoggedOutcome), "", new.id)
                  ELSE /\ UNCHANGED history
                       /\ SetLast("add_relationship", via, u, "raise",
                                  HttpStatus(via, "raise"), "", new.id)
    /\ UNCHANGED <<users, nextUserId, session, contacts, nextContactId, restVars>>

\* remove_relationship takes before_data = relationship.to_dict() before it
\* deletes the row
remove_relationship(u, relationship_id, via) ==
    /\ LET found == { r \in relationships : r.id = relationship_id /\ r.user_id = u } IN
       IF found = {}
       THEN /\ UNCHANGED <<relationships, history>>
            /\ SetLast("remove_relationship", via, u, "error", HttpStatus(via, "error"),
                       "Relationship not found", relationship_id)
       ELSE LET r == CHOOSE x \in found : TRUE IN
            IF RelationshipHasToDict
            THEN /\ relationships' = relationships \ {r}
                 /\ history' = _log_history(
                                   _log_history(history, u, r.contact_id_1,
                                                "remove_relationship", Dict(r), EmptyDict),
                                   u, r.contact_id_2, "remove_relationship", Dict(r),
                                   EmptyDict)
                 /\ SetLast("remove_relationship", via, u, LoggedOutcome,
                            HttpStatus(via, LoggedOutcome), "", relationship_id)
            ELSE /\ UNCHANGED <<relationships, history>>
                 /\ SetLast("remove_relationship", via, u, "raise",
                            HttpStatus(via, "raise"), "", relationship_id)
    /\ UNCHANGED <<users, nextUserId, session, contacts, nextContactId,
                   nextRelationshipId, restVars>>

\* ------------------------------------------------ HistoryService operations
\* ids of contacts handed out so far (a caller may also name a deleted one)
KnownContactIds == { ContactId(i) : i \in 1..nextContactId }

\* the contact user 1 created before the run starts, and its snapshot then
InitialContact ==
    [id |-> ContactId(1), user_id |-> 1, full_name |-> "Ann", emails |-> <<"e1">>,
     phones |-> <<"p1", "p2">>, tags |-> <<"t1">>, notes |-> Notes(<<"n1">>)]

StoredSnapshot(u, cid) ==
    IF ContactOf(u, cid) = {} THEN EmptyDict
    ELSE to_dict(CHOOSE c \in ContactOf(u, cid) : TRUE)

\* (before_data, after_data) a caller passes to log_action for contact cid:
\* nothing before and the stored row after, or, for the initial contact, the
\* snapshot taken at the start and the stored row (an empty dict once deleted)
SnapshotInputs(u, cid) ==
    { <<EmptyDict, StoredSnapshot(u, cid)>> }
    \cup (IF cid = InitialContact.id /\ u = InitialContact.user_id
          THEN { <<to_dict(InitialContact), StoredSnapshot(u, cid)>> } ELSE {})

HistLogAction(u, cid, action_type, before_data, after_data) ==
    /\ Len(history) < MaxHistory
    /\ history' = log_action(history, u, cid, action_type, before_data, after_data)
    /\ SetLast("log_action", "service", u, IF UserExists(u) THEN "success" ELSE "none",
               0, "", cid)
    /\ UNCHANGED <<users, nextUserId, session, contacts, nextContactId, relVars,
                   restVars>>

\* an undo entry that repeats the snapshots of the entry it undoes
UndoSnapshots_NoSwap(h) ==
    [before_data |-> json_loads(h.before_data),
     after_data |-> IF Truthy(h.after_data) THEN json_loads(h.after_data) ELSE PyNone]

\* the snapshots undo_action hands to log_action: the entry's after snapshot
\* (None when it has none) as before_data, its parsed before snapshot as
\* after_data
UndoSnapshots(h) ==
    [before_data |-> IF Truthy(h.after_data) THEN json_loads(h.after_data) ELSE PyNone,
     after_data |-> json_loads(h.before_data)]

\* HistoryService.undo_action: logs an "undo" entry with the snapshots
\* swapped and returns the before snapshot; it writes no contact
undo_action(u, hid) ==
    /\ LET found == HistoryEntryOf(u, hid) IN
       IF found = {}
       THEN /\ UNCHANGED history
            /\ SetLast("undo_action", "service", u, "error", 0, "History entry not found", hid)
       ELSE LET h == CHOOSE x \in found : TRUE IN
            IF ~Truthy(h.before_data)
            THEN /\ UNCHANGED history
                 /\ SetLast("undo_action", "service", u, "error", 0,
                            "No before data available for undo", hid)
            ELSE /\ Len(history) < MaxHistory
                 /\ history' = log_action(history, u, h.contact_id, "undo",
                                          UndoSnapshots(h).before_data,
                                          UndoSnapshots(h).after_data)
                 /\ last' = [op |-> "undo_action", user |-> u, outcome |-> "success",
                             status |-> 0, error |-> "", ref |-> hid,
                             contact_data |-> json_loads(h.before_data)]
    /\ UNCHANGED <<users, nextUserId, session, contacts, nextContactId, relVars,
                   restVars>>

\* HistoryService.create_backup: after_data is dumped whatever the list holds
create_backup(u, contacts_data) ==
    /\ Len(history) < MaxHistory
    /\ history' = IF UserExists(u)
                  THEN Append(history,
                              [id |-> Len(history) + 1, user_id |-> u, contact_id |-> BACKUP,
                               action_type |-> "backup", before_data |-> PyNone,
                               after_data |-> json_dumps(contacts_data)])
                  ELSE history
    /\ SetLast("create_backup", "service", u, IF UserExists(u) THEN "success" ELSE "none",
               0, "", BACKUP)
    /\ UNCHANGED <<users, nextUserId, session, contacts, nextContactId, relVars,
                   restVars>>

\* ------------------------------------------------------------ users, hashes
NoUsername == "<null>"
\* werkzeug generate_password_hash / check_password_hash
generate_password_hash(pw) == [hashed |-> TRUE, pw |-> pw]
check_password_hash(stored, pw) == stored.hashed /\ stored.pw = pw

EmailOf(i) == <<"a@x", "b@x", "c@x", "d@x">>[i]

\* the row register stores
RegisteredUser(id, email, password, name) ==
    [id |-> id, username |-> NoUsername, email |-> email,
     password |-> generate_password_hash(password), name |-> name]

NoLast == [op |-> "none", user |-> NoSession, outcome |-> "none",
           status |-> 0, error |-> "", ref |-> ""]

\* defaultdict(int) with no key
EmptyPatterns == [k \in {} |-> 0]

\* no suggestion has been generated
NoSuggestions == suggestions = {} /\ nextSuggestionId = 0

\* the feedback service as imported: no table, no flag, the lock free and
\* every worker thread idle
MaxRequests == 3
\* the worker threads of the threaded server
Threads == {1, 2}
NoThread == 0
NoPayload == [t |-> "None"]
FeedbackNotStarted ==
    /\ feedback = <<>>
    /\ tables_created = FALSE
    /\ tables_created_lock = NoThread
    /\ create_all_calls = 0
    /\ pc = [t \in Threads |-> "idle"]
    /\ payload = [t \in Threads |-> NoPayload]
    /\ requests = 0

\* the orchestrator as constructed: no bot, no service, no feedback
NoOrchestration ==
    /\ bots = [b \in {} |-> 0]
    /\ services = [n \in {} |-> 0]
    /\ feedback_data = <<>>

\* --------------------------------------------------- services called directly
\* the users of ServiceUsers have registered and user 1 has created one contact
InitService ==
    /\ users = { RegisteredUser(i, EmailOf(i), "pw", "N") : i \in ServiceUsers }
    /\ nextUserId = Cardinality(ServiceUsers)
    /\ session = NoSession
    /\ contacts = {InitialContact}
    /\ nextContactId = 1
    /\ relationships = {}
    /\ nextRelationshipId = 0
    /\ NoSuggestions
    /\ FeedbackNotStarted
    /\ NoOrchestration
    /\ history = <<>>
    /\ merge_patterns = EmptyPatterns
    /\ split_patterns = EmptyPatterns
    /\ rejection_patterns = EmptyPatterns
    /\ last = NoLast
    /\ steps = 0

SvcCreateContact ==
    /\ Step
    /\ \E u \in ServiceUsers, data \in ContactInputs : create_contact(u, data, "service")
SvcUpdateContact ==
    /\ Step
    /\ \E u \in ServiceUsers, cid \in KnownContactIds, upd \in UpdateInputs :
        update_contact(u, cid, upd, "service")
SvcDeleteContact ==
    /\ Step
    /\ \E u \in ServiceUsers, cid \in KnownContactIds : delete_contact(u, cid, "service")
SvcSplitPhone ==
    /\ Step
    /\ \E u \in ServiceUsers, cid \in KnownContactIds, phone \in PhoneInputs :
        split_phone(u, cid, phone, "service")
SvcSplitAll ==
    /\ Step
    /\ \E u \in ServiceUsers, cid \in KnownContactIds : split_all(u, cid, "service")
SvcMergeContacts ==
    /\ Step
    /\ \E u \in ServiceUsers, ids \in SUBSET KnownContactIds : merge_contacts(u, ids, "service")
SvcAddRelationship ==
    /\ Step
    /\ \E u \in ServiceUsers, contact_id_1, contact_id_2 \in KnownContactIds,
          relationship_type \in RelationshipTypes :
        add_relationship(u, contact_id_1, contact_id_2, relationship_type, "service")
SvcRemoveRelationship ==
    /\ Step
    /\ \E u \in ServiceUsers, relationship_id \in 1..MaxContacts :
        remove_relationship(u, relationship_id, "service")
SvcLogAction ==
    /\ Step
    /\ \E u \in ServiceUsers, cid \in KnownContactIds :
        \E data \in SnapshotInputs(u, cid) :
            HistLogAction(u, cid, "update", data[1], data[2])
SvcUndoAction ==
    /\ Step
    /\ \E u \in ServiceUsers, hid \in 1..MaxHistory : undo_action(u, hid)
SvcCreateBackup ==
    /\ Step
    /\ \E u \in ServiceUsers :
        \E order \in Orderings({ c \in contacts : c.user_id = u }) :
            create_backup(u, PyList([i \in DOMAIN order |-> to_dict(order[i])]))

NextService ==
    \/ SvcCreateContact
    \/ SvcUpdateContact
    \/ SvcDeleteContact
    \/ SvcSplitPhone
    \/ SvcSplitAll
    \/ SvcMergeContacts
    \/ SvcAddRelationship
    \/ SvcRemoveRelationship
    \/ SvcLogAction
    \/ SvcUndoAction
    \/ SvcCreateBackup

SpecService == InitService /\ [][NextService]_vars

\* ------------------------------------------------------------ the HTTP routes
\* request bodies of the auth and user routes ("" is a missing field)
EmailInputs == {"a@x", "b@x"}
PasswordInputs == {"pw", "bad"}
UsernameInputs == {"ua", "ub"}
Missing == ""

\* the row POST /api/users stores: the password goes in as sent
CreatedUser(id, username, email, password, name) ==
    [id |-> id, username |-> username, email |-> email,
     password |-> [hashed |-> FALSE, pw |-> password], name |-> name]

\* users.email is unique; users.username is unique where it is not NULL
UniqueViolation(row) ==
    \E x \in users :
        /\ x.id # row.id
        /\ \/ x.email = row.email
           \/ (row.username # NoUsername /\ x.username = row.username)

\* register's own look-up, never taken as found
EmailTaken_Never(email) == FALSE

\* g.db.query(User).filter_by(email=email).first() found a row
EmailTaken(email) == \E x \in users : x.email = email

\* a request that is answered without any write
Answer(op, outcome, status, error, ref) ==
    /\ SetLast(op, "http", session, outcome, status, error, ref)
    /\ UNCHANGED <<dbVars, session, restVars>>

register(email, password, name) ==
    IF email = Missing \/ password = Missing \/ name = Missing
    THEN Answer("register", "error", 400, "Email, password, and name are required", email)
    ELSE IF EmailTaken(email)
    THEN Answer("register", "error", 400, "User with this email already exists", email)
    ELSE LET new == RegisteredUser(nextUserId + 1, email, password, name) IN
         IF UniqueViolation(new)
         THEN Answer("register", "raise", 500, "", email)
         ELSE /\ nextUserId < MaxUsers
              /\ users' = users \cup {new}
              /\ nextUserId' = nextUserId + 1
              /\ session' = new.id
              /\ SetLast("register", "http", new.id, "success", 200, "", email)
              /\ UNCHANGED <<contacts, nextContactId, relVars, history, restVars>>

login(email, password) ==
    IF email = Missing \/ password = Missing
    THEN Answer("login", "error", 400, "Email and password are required", email)
    ELSE LET found == { x \in users : x.email = email } IN
         IF found = {} \/ ~check_password_hash((CHOOSE x \in found : TRUE).password, password)
         THEN Answer("login", "error", 401, "Invalid email or password", email)
         ELSE LET user == CHOOSE x \in found : TRUE IN
              /\ session' = user.id
              /\ SetLast("login", "http", user.id, "success", 200, "", email)
              /\ UNCHANGED <<dbVars, restVars>>

\* a logout that answers but leaves the cookie as it is
logout_KeepsSession ==
    /\ UNCHANGED session
    /\ SetLast("logout", "http", session, "success", 200, "", "")
    /\ UNCHANGED <<dbVars, restVars>>

\* session.clear()
logout ==
    /\ session' = NoSession
    /\ SetLast("logout", "http", session, "success", 200, "", "")
    /\ UNCHANGED <<dbVars, restVars>>

get_current_user ==
    IF session = NoSession
    THEN Answer("get_current_user", "error", 401, "Not authenticated", "")
    ELSE IF ~UserExists(session)
    THEN Answer("get_current_user", "error", 404, "User not found", "")
    ELSE Answer("get_current_user", "success", 200, "", "")

\* the methods of the Query object g.db.query(...) returns; g.db is a plain
\* SQLAlchemy session (SessionLocal), whose Query has no first_or_404
QueryMethods == {"filter", "filter_by", "first", "all", "order_by", "limit", "count"}
QueryHas(method) == method \in QueryMethods

create_user(username, email, password, name) ==
    LET new == CreatedUser(nextUserId + 1, username, email, password, name) IN
    IF UniqueViolation(new)
    THEN \* IntegrityError leaves the handler
         Answer("create_user", "raise", 500, "", email)
    ELSE /\ nextUserId < MaxUsers
         /\ users' = users \cup {new}
         /\ nextUserId' = nextUserId + 1
         /\ SetLast("create_user", "http", session, "success", 201, "", email)
         /\ UNCHANGED <<session, contacts, nextContactId, relVars, history,
                        restVars>>

get_users == Answer("get_users", "success", 200, "", "")

get_user(user_id) ==
    IF ~QueryHas("first_or_404")
    THEN Answer("get_user", "raise", 500, "", user_id)
    ELSE IF ~UserExists(user_id)
    THEN Answer("get_user", "error", 404, "", user_id)
    ELSE Answer("get_user", "success", 200, "", user_id)

\* PUT /api/users/<id> with an "email" field
update_user(user_id, email) ==
    IF ~QueryHas("first_or_404")
    THEN \* AttributeError leaves the handler
         Answer("update_user", "raise", 500, "", [id |-> user_id, email |-> email])
    ELSE IF ~UserExists(user_id)
    THEN Answer("update_user", "error", 404, "", [id |-> user_id, email |-> email])
    ELSE LET user == CHOOSE x \in users : x.id = user_id
             new == [user EXCEPT !.email = email]
         IN IF UniqueViolation(new)
            THEN Answer("update_user", "raise", 500, "", [id |-> user_id, email |-> email])
            ELSE /\ users' = (users \ {user}) \cup {new}
                 /\ SetLast("update_user", "http", session, "success", 200, "", [id |-> user_id, email |-> email])
                 /\ UNCHANGED <<nextUserId, session, contacts, nextContactId,
                                relVars, history, restVars>>

\* rows whose NOT NULL user_id the ORM would set to NULL on deleting the user
HasDependents(user_id) ==
    \/ \E c \in contacts : c.user_id = user_id
    \/ \E r \in relationships : r.user_id = user_id
    \/ \E i \in 1..Len(history) : history[i].user_id = user_id

delete_user(user_id) ==
    IF ~QueryHas("first_or_404")
    THEN Answer("delete_user", "raise", 500, "", user_id)
    ELSE IF ~UserExists(user_id)
    THEN Answer("delete_user", "error", 404, "", user_id)
    ELSE IF HasDependents(user_id)
    THEN Answer("delete_user", "raise", 500, "", user_id)
    ELSE /\ users' = { x \in users : x.id # user_id }
         /\ SetLast("delete_user", "http", session, "success", 204, "", user_id)
         /\ UNCHANGED <<nextUserId, session, contacts, nextContactId, relVars,
                        history, restVars>>

\* login_required that trusts the cookie without looking the user up
login_required_NoLookup(sess) == sess # NoSession

\* login_required lets the handler run: the session holds a user_id and
\* query(User).filter_by(id=session["user_id"]).first() finds the row
login_required(sess) == sess # NoSession /\ UserExists(sess)

Protected(route, handler) ==
    IF login_required(session)
    THEN handler
    ELSE Answer(route, "unauthorized", 401,
                IF session = NoSession THEN "Unauthorized" ELSE "User not found", "")

HistoryRoutes ==
    {"get_contact_history", "get_user_history", "get_recent_actions",
     "undo_action", "create_backup", "list_backups", "restore_backup"}
RelationshipRoutes ==
    {"create_relationship", "get_relationships_for_contact",
     "update_relationship", "delete_relationship"}

\* a history or backup route: HistoryService(g.db, user_id) is inside the try
\* and HistoryService.__init__ takes the session only, so the TypeError is
\* answered 500 before any service method runs
history_route(route) == Answer(route, "raise", 500, "", "")

\* a relationship route: 400 on a body without the required fields, else
\* RelationshipService.__init__ raises constructing its HistoryService
relationship_route(route, bodyComplete) ==
    IF route \in {"create_relationship", "update_relationship"} /\ ~bodyComplete
    THEN Answer(route, "error", 400, "", "")
    ELSE Answer(route, "raise", 500, "", "")

\* ------------------------------------------------------- the Flask application
\* contact ids a request may name
RequestContactIds == KnownContactIds \cup {ContactId(1)}

\* an empty database; the client's cookie is either absent or was issued
\* for a user whose row no longer exists
Init ==
    /\ users = {}
    /\ nextUserId = 0
    /\ session \in {NoSession, 1}
    /\ contacts = {}
    /\ nextContactId = 0
    /\ relationships = {}
    /\ nextRelationshipId = 0
    /\ NoSuggestions
    /\ FeedbackNotStarted
    /\ NoOrchestration
    /\ history = <<>>
    /\ merge_patterns = EmptyPatterns
    /\ split_patterns = EmptyPatterns
    /\ rejection_patterns = EmptyPatterns
    /\ last = NoLast
    /\ steps = 0

Register ==
    /\ Step
    /\ \E email \in EmailInputs \cup {Missing} : register(email, "pw", "N")
Login ==
    /\ Step
    /\ \E email \in EmailInputs, password \in PasswordInputs \cup {Missing} :
        login(email, password)
Logout == Step /\ logout
Me == Step /\ get_current_user
CreateUser ==
    /\ Step
    /\ \E username \in UsernameInputs, email \in EmailInputs :
        create_user(username, email, "pw", "N")
GetUsers == Step /\ get_users
GetUser == Step /\ \E id \in UserIds : get_user(id)
UpdateUser == Step /\ \E id \in UserIds, email \in EmailInputs : update_user(id, email)
DeleteUser == Step /\ \E id \in UserIds : delete_user(id)
RouteCreateContact ==
    /\ Step
    /\ \E data \in ContactInputs :
        Protected("create_contact", create_contact(session, data, "http"))
RouteUpdateContact ==
    /\ Step
    /\ \E cid \in RequestContactIds, upd \in UpdateInputs :
        Protected("update_contact", update_contact(session, cid, upd, "http"))
RouteDeleteContact ==
    /\ Step
    /\ \E cid \in RequestContactIds :
        Protected("delete_contact", delete_contact(session, cid, "http"))
RouteSplitPhone ==
    /\ Step
    /\ \E cid \in RequestContactIds, phone \in PhoneInputs :
        Protected("split_phone", split_phone(session, cid, phone, "http"))
RouteSplitAll ==
    /\ Step
    /\ \E cid \in RequestContactIds :
        Protected("split_all", split_all(session, cid, "http"))
RouteMergeContacts ==
    /\ Step
    /\ \E ids \in SUBSET RequestContactIds :
        Protected("merge_contacts", merge_contacts(session, ids, "http"))
RouteHistory ==
    /\ Step
    /\ \E route \in HistoryRoutes : Protected(route, history_route(route))
RouteRelationship ==
    /\ Step
    /\ \E route \in RelationshipRoutes, bodyComplete \in BOOLEAN :
        Protected(route, relationship_route(route, bodyComplete))

Next ==
    \/ Register
    \/ Login
    \/ Logout
    \/ Me
    \/ CreateUser
    \/ GetUsers
    \/ GetUser
    \/ UpdateUser
    \/ DeleteUser
    \/ RouteCreateContact
    \/ RouteUpdateContact
    \/ RouteDeleteContact
    \/ RouteSplitPhone
    \/ RouteSplitAll
    \/ RouteMergeContacts
    \/ RouteHistory
    \/ RouteRelationship

Spec == Init /\ [][Next]_vars

\* ------------------------------------------------------- ContactAIPredictor
\* Strings the predictor takes apart are sequences of characters.
UpperChars == <<"D", "J", "M">>
LowerChars == <<"d", "j", "m">>

\* str.lower(), on the letters the inputs use
LowerChar(ch) ==
    IF \E i \in DOMAIN UpperChars : UpperChars[i] = ch
    THEN LowerChars[CHOOSE i \in DOMAIN UpperChars : UpperChars[i] = ch]
    ELSE ch
lower(s) == [i \in DOMAIN s |-> LowerChar(s[i])]

\* needle in hay
Contains(hay, needle) ==
    \E i \in 0..(Len(hay) - Len(needle)) : SubSeq(hay, i + 1, i + Len(needle)) = needle

\* s.replace(pat, "") for a non-empty pat: occurrences removed left to right
RECURSIVE Remove(_, _)
Remove(s, pat) ==
    IF Len(s) < Len(pat) THEN s
    ELSE IF SubSeq(s, 1, Len(pat)) = pat
         THEN Remove(SubSeq(s, Len(pat) + 1, Len(s)), pat)
         ELSE <<s[1]>> \o Remove(Tail(s), pat)

\* s.strip()
RECURSIVE strip(_)
strip(s) ==
    IF s = <<>> THEN s
    ELSE IF s[1] = " " THEN strip(Tail(s))
    ELSE IF s[Len(s)] = " " THEN strip(SubSeq(s, 1, Len(s) - 1))
    ELSE s

\* e.split("@")[1] for an e that holds "@": the text between the first "@"
\* and the next one, or the end
DomainOf(e) ==
    LET at == CHOOSE i \in DOMAIN e : e[i] = "@" /\ \A j \in 1..(i - 1) : e[j] # "@"
        rest == SubSeq(e, at + 1, Len(e))
        ends == { i \in DOMAIN rest : rest[i] = "@" }
    IN IF ends = {} THEN rest
       ELSE SubSeq(rest, 1, (CHOOSE i \in ends : \A j \in ends : i <= j) - 1)
HasAt(e) == \E i \in DOMAIN e : e[i] = "@"

\* [x.get("value") ... for x in contact.get(key, []) if x.get("value")]
Valued(items) == SelectSeq(items, LAMBDA v : v # <<>>)

_fuzzy_match(str1, str2) ==
    LET s1 == strip(Remove(Remove(Remove(str1, <<"m", "r", ".">>),
                                  <<"m", "r", "s", ".">>), <<"d", "r", ".">>))
        s2 == strip(Remove(Remove(Remove(str2, <<"m", "r", ".">>),
                                  <<"m", "r", "s", ".">>), <<"d", "r", ".">>))
    IN IF Contains(s2, s1) \/ Contains(s1, s2) THEN TRUE
       ELSE IF Len(s1) > 3 /\ Len(s2) > 3 THEN SubSeq(s1, 1, 3) = SubSeq(s2, 1, 3)
       ELSE FALSE

_same_domain(emails1, emails2) ==
    LET domains1 == { DomainOf(e) : e \in { x \in emails1 : HasAt(x) } }
        domains2 == { DomainOf(e) : e \in { x \in emails2 : HasAt(x) } }
    IN domains1 \cap domains2 # {}

extract_contact_features(contact) ==
    [has_multiple_emails |-> Len(Valued(contact.emails)) > 1,
     has_multiple_phones |-> Len(Valued(contact.phones)) > 1,
     has_organization |-> contact.organization # <<>>,
     has_related_names |-> Len(contact.relatedNames) > 0,
     name_length |-> Len(contact.fullName),
     has_notes |-> contact.note # <<>>,
     email_domains |-> { DomainOf(e) : e \in { x \in Range(contact.emails) : HasAt(x) } },
     phone_count |-> Len(Valued(contact.phones)),
     email_count |-> Len(Valued(contact.emails))]

\* phone value with " " and "-" removed
NormalizePhone(p) == SelectSeq(p, LAMBDA ch : ch # " " /\ ch # "-")

NameScore(name1, name2) ==
    IF name1 # <<>> /\ name2 # <<>>
    THEN IF name1 = name2 THEN 30
         ELSE IF Contains(name2, name1) \/ Contains(name1, name2) THEN 20
         ELSE IF _fuzzy_match(name1, name2) THEN 15
         ELSE 0
    ELSE 0

EmailScore(emails1, emails2) ==
    IF emails1 # {} /\ emails2 # {}
    THEN IF emails1 \cap emails2 # {} THEN 25
         ELSE IF _same_domain(emails1, emails2) THEN 10
         ELSE 0
    ELSE 0

\* the predictor's tables, as `self`
Self == [merge_patterns |-> merge_patterns, split_patterns |-> split_patterns,
         rejection_patterns |-> rejection_patterns]

\* score of calculate_merge_probability, out of max_score
MergeScore(contact1, contact2) ==
    LET emails1 == { lower(e) : e \in Range(Valued(contact1.emails)) }
        emails2 == { lower(e) : e \in Range(Valued(contact2.emails)) }
        phones1 == { NormalizePhone(p) : p \in Range(Valued(contact1.phones)) }
        phones2 == { NormalizePhone(p) : p \in Range(Valued(contact2.phones)) }
        org1 == lower(contact1.organization)
        org2 == lower(contact2.organization)
        related1 == { lower(r) : r \in Range(contact1.relatedNames) }
        related2 == { lower(r) : r \in Range(contact2.relatedNames) }
    IN NameScore(lower(contact1.fullName), lower(contact2.fullName))
       + EmailScore(emails1, emails2)
       + (IF phones1 # {} /\ phones2 # {} /\ phones1 \cap phones2 # {} THEN 25 ELSE 0)
       + (IF org1 # <<>> /\ org2 # <<>> /\ org1 = org2 THEN 10 ELSE 0)
       + (IF related1 # {} /\ related2 # {} /\ related1 \cap related2 # {}
          THEN 10 ELSE 0)

\* max_score after the five features
MergeMaxScore == 30 + 25 + 25 + 10 + 10

\* a scorer that lowers the bar by one point per merge pattern it has learned
calculate_merge_probability_Learned(self, contact1, contact2) ==
    [score |-> MergeScore(contact1, contact2),
     max_score |-> MergeMaxScore - Cardinality(DOMAIN self.merge_patterns)]

\* calculate_merge_probability returns score / max_score
calculate_merge_probability(self, contact1, contact2) ==
    [score |-> MergeScore(contact1, contact2), max_score |-> MergeMaxScore]

\* the split score with the phone threshold off by one: two phones count
SplitScore_TwoPhones(contact) ==
    LET features == extract_contact_features(contact) IN
    (IF features.email_count > 1 /\ Cardinality(features.email_domains) > 1
     THEN 30 ELSE 0)
    + (IF features.phone_count > 1 THEN 20 ELSE 0)
    + (IF features.has_related_names THEN 25 ELSE 0)
    + (IF features.has_multiple_emails /\ features.has_multiple_phones THEN 25 ELSE 0)

\* score of calculate_split_probability in hundredths, before min(score, 1.0)
SplitScore(contact) ==
    LET features == extract_contact_features(contact) IN
    (IF features.email_count > 1 /\ Cardinality(features.email_domains) > 1
     THEN 30 ELSE 0)
    + (IF features.phone_count > 2 THEN 20 ELSE 0)
    + (IF features.has_related_names THEN 25 ELSE 0)
    + (IF features.has_multiple_emails /\ features.has_multiple_phones THEN 25 ELSE 0)

\* a split scorer that adds one hundredth per split pattern it has learned
calculate_split_probability_Learned(self, contact) ==
    LET score == SplitScore(contact) + Cardinality(DOMAIN self.split_patterns) IN
    [score |-> IF score < 100 THEN score ELSE 100, max_score |-> 100]

\* calculate_split_probability returns min(score, 1.0)
calculate_split_probability(self, contact) ==
    [score |-> IF SplitScore(contact) < 100 THEN SplitScore(contact) ELSE 100,
     max_score |-> 100]

\* table[key] = 1 in place of table[key] += 1
Increment_Set(table, key) ==
    [k \in DOMAIN table \cup {key} |-> IF k = key THEN 1 ELSE table[k]]

\* defaultdict(int): table[key] += 1
Increment(table, key) ==
    IF key \in DOMAIN table THEN [table EXCEPT ![key] = @ + 1]
    ELSE [k \in DOMAIN table \cup {key} |-> IF k = key THEN 1 ELSE table[k]]

\* the body of learn_from_feedback: what it does to the three tables
LearnPatterns(suggestion_type, features, approved) ==
    LET feature_key == json_dumps(features) IN
    IF approved
    THEN /\ merge_patterns' = IF suggestion_type = "merge"
                              THEN Increment(merge_patterns, feature_key)
                              ELSE merge_patterns
         /\ split_patterns' = IF suggestion_type = "split"
                              THEN Increment(split_patterns, feature_key)
                              ELSE split_patterns
         /\ UNCHANGED rejection_patterns
    ELSE /\ rejection_patterns' = Increment(rejection_patterns, feature_key)
         /\ UNCHANGED <<merge_patterns, split_patterns>>

learn_from_feedback(suggestion_type, features, approved) ==
    LET feature_key == json_dumps(features) IN
    /\ LearnPatterns(suggestion_type, features, approved)
    /\ last' = [op |-> "learn_from_feedback", user |-> NoSession, outcome |-> "none",
                status |-> 0, error |-> "",
                ref |-> [key |-> feature_key, features |-> features,
                         suggestion_type |-> suggestion_type, approved |-> approved]]
    /\ UNCHANGED <<dbVars, session, suggestionVars, feedbackVars, workflowVars>>

\* ------------------------------------------------- the predictor instance
NoText == <<>>
PContact(fullName, emails, phones, organization, relatedNames) ==
    [fullName |-> fullName, emails |-> emails, phones |-> phones,
     organization |-> organization, relatedNames |-> relatedNames, note |-> NoText]

\* contact records handed to the predictor (a missing key reads as "" or [])
PredictorContacts ==
    { PContact(<<"J", "o", "h", "n">>, << <<"j", "@", "x">> >>, << <<"1", "-", "2">> >>,
               NoText, <<>>),
      PContact(<<"J", "o", "h", "a">>, << <<"J", "@", "x">> >>, << <<"3">> >>,
               NoText, <<>>),
      PContact(<<"M", "a", "r", "y">>, << <<"m", "@", "y">> >>, << <<"4">> >>,
               NoText, <<>>),
      PContact(<<"D", "r", ".", " ", "J", "o">>,
               << <<"d", "@", "x">>, <<"d", "@", "y">> >>,
               << <<"1", "2">>, <<"3">>, <<"5">> >>,
               <<"x">>, << <<"J", "o">> >>),
      PContact(<<"J", "a", "n", "e">>, << <<"a", "@", "x">> >>, << <<"4">>, <<"7">> >>,
               NoText, <<>>),
      PContact(<<"J", "o", "h", "a">>, << <<"j", "@", "x">>, <<"b", "@", "y">> >>,
               << <<"6">> >>, NoText, <<>>),
      PContact(NoText, <<>>, <<>>, NoText, <<>>) }

\* features the suggestion routes pass: {"confidence": suggestion.confidence}
FeatureInputs == { [confidence |-> 80], [confidence |-> 95] }
SuggestionTypes == {"merge", "split"}

InitPredictor ==
    /\ users = {}
    /\ nextUserId = 0
    /\ session = NoSession
    /\ contacts = {}
    /\ nextContactId = 0
    /\ relationships = {}
    /\ nextRelationshipId = 0
    /\ NoSuggestions
    /\ FeedbackNotStarted
    /\ NoOrchestration
    /\ history = <<>>
    /\ merge_patterns = EmptyPatterns
    /\ split_patterns = EmptyPatterns
    /\ rejection_patterns = EmptyPatterns
    /\ last = NoLast
    /\ steps = 0

CalcMerge ==
    /\ Step
    /\ \E contact1, contact2 \in PredictorContacts :
        last' = [op |-> "calculate_merge_probability", user |-> NoSession,
                 outcome |-> calculate_merge_probability(Self, contact1, contact2),
                 status |-> 0, error |-> "", ref |-> <<contact1, contact2>>]
    /\ UNCHANGED <<dbVars, session, restVars>>
CalcSplit ==
    /\ Step
    /\ \E contact \in PredictorContacts :
        last' = [op |-> "calculate_split_probability", user |-> NoSession,
                 outcome |-> calculate_split_probability(Self, contact),
                 status |-> 0, error |-> "", ref |-> <<contact>>]
    /\ UNCHANGED <<dbVars, session, restVars>>
LearnFromFeedback ==
    /\ Step
    /\ \E suggestion_type \in SuggestionTypes, features \in FeatureInputs,
          approved \in BOOLEAN :
        learn_from_feedback(suggestion_type, features, approved)

NextPredictor ==
    \/ CalcMerge
    \/ CalcSplit
    \/ LearnFromFeedback

SpecPredictor == InitPredictor /\ [][NextPredictor]_vars

\* ------------------------------------------------------ routes/suggestions.py
\* what the extractors of ContactNLUService.analyze_note find in a note: the
\* note text is carried as the lists its regular expressions return
Analysis(emails, phones, companies, related) ==
    [emails |-> emails, phones |-> phones, companies |-> companies,
     relationships |-> related]
NoFindings == Analysis(<<>>, <<>>, <<>>, <<>>)

\* contact.get("id") of a request contact that has no "id" key
NoId == "<none>"

\* a contact dictionary of the analyze request: id (NoId when the key is
\* missing), notes (PyNone when missing), full_name, and the keys the
\* predictor reads
RequestContact(id, notes, full_name, dict) ==
    [id |-> id, notes |-> notes, full_name |-> full_name, dict |-> dict]

JohnDict ==
    PContact(<<"J", "o", "h", "n">>, << <<"j", "@", "x">> >>, << <<"1", "-", "2">> >>,
             NoText, <<>>)
DrJoDict ==
    PContact(<<"D", "r", ".", " ", "J", "o">>,
             << <<"d", "@", "x">>, <<"d", "@", "y">> >>,
             << <<"1", "2">>, <<"3">>, <<"5">> >>,
             <<"x">>, << <<"J", "o">> >>)

\* the "contacts" lists of the analyze requests
AnalyzeInputs ==
    { <<>>,
      << RequestContact("c1", PyNone, "John", JohnDict) >>,
      << RequestContact("c1", Analysis(<<>>, <<>>, <<"ACME">>, <<>>), "John", JohnDict),
         RequestContact("c2", PyNone, "Dr. Jo", DrJoDict) >>,
      << RequestContact(NoId, Analysis(<< <<"n", "@", "z">> >>, <<>>, <<>>, <<>>),
                        "John", JohnDict) >> }

\* a Suggestion before it is inserted (status is always "pending")
Generated(user_id, contact_id, field_name, suggested_value, confidence, source) ==
    [user_id |-> user_id, contact_id |-> contact_id, field_name |-> field_name,
     suggested_value |-> suggested_value, confidence |-> confidence,
     source |-> source, status |-> "pending"]

\* nlu_service.generate_suggestions_from_analysis, turned into Suggestions
NluSuggestions(user_id, contact) ==
    IF contact.notes = PyNone THEN <<>>
    ELSE LET a == contact.notes
             add_email == SelectSeq(a.emails, LAMBDA e : e \notin Range(Valued(contact.dict.emails)))
             add_phone == SelectSeq(a.phones, LAMBDA ph : ph \notin Range(Valued(contact.dict.phones)))
         IN [i \in 1..Len(add_email) |->
               Generated(user_id, contact.id, "email", add_email[i], 80, "NLU")]
            \o [i \in 1..Len(add_phone) |->
               Generated(user_id, contact.id, "phone", add_phone[i], 75, "NLU")]
            \o (IF a.companies # <<>> /\ contact.dict.organization = NoText
                THEN << Generated(user_id, contact.id, "organization", a.companies[1], 70, "NLU") >>
                ELSE <<>>)
            \o [i \in 1..Len(a.relationships) |->
               Generated(user_id, contact.id, "related_name", a.relationships[i], 65, "NLU")]

\* what the external Explorium tool does for a company name: the command is
\* not installed (subprocess.run raises FileNotFoundError), it matches no
\* business, or it returns business data under the same or another name, or
\* business data and a prospect with a job title
ExploriumOutcomes == {"tool missing", "no match", "same name", "other name", "prospect"}

\* step 2 of the loop of generate_ai_suggestions; without an organization
\* enrich_contact_with_explorium calls no tool and returns an empty dict
ExploriumSuggestions(user_id, contact, tool) ==
    IF contact.dict.organization = NoText \/ tool \in {"no match", "same name"} THEN <<>>
    ELSE IF tool = "other name"
    THEN << Generated(user_id, contact.id, "organization", "other", 95, "Explorium") >>
    ELSE << Generated(user_id, contact.id, "title", "job", 90, "Explorium") >>

\* step 3: predictor.calculate_split_probability(contact) > 0.6
SplitSuggestions(user_id, contact) ==
    LET split_probability == calculate_split_probability(Self, contact.dict) IN
    IF 10 * split_probability.score > 6 * split_probability.max_score
    THEN << Generated(user_id, contact.id, "action", "split_contact",
                      split_probability.score, "AI Predictor") >>
    ELSE <<>>

\* the suggestions generated for one contact of the request
ContactSuggestions(user_id, contact, tool) ==
    NluSuggestions(user_id, contact) \o ExploriumSuggestions(user_id, contact, tool)
    \o SplitSuggestions(user_id, contact)

RECURSIVE Concat(_)
Concat(seqs) == IF seqs = <<>> THEN <<>> ELSE Head(seqs) \o Concat(Tail(seqs))

\* step 4 compares the stored contacts pairwise on their to_dict(): the
\* "organization" key is there with the column's value, None for every
\* contact stored here, and the predictor calls .lower() on it
StoredOrganization(c) == PyNone
MergeAnalysisRaises(user_id) ==
    \E c1, c2 \in { c \in contacts : c.user_id = user_id } :
        c1 # c2 /\ (StoredOrganization(c1) = PyNone \/ StoredOrganization(c2) = PyNone)

\* generate_ai_suggestions: the list of suggestions, or an exception
generate_ai_suggestions(contacts_in, user_id, tool) ==
    IF \/ tool = "tool missing" /\ \E i \in 1..Len(contacts_in) :
                                      contacts_in[i].dict.organization # NoText
       \/ MergeAnalysisRaises(user_id)
    THEN [raised |-> TRUE, list |-> <<>>]
    ELSE [raised |-> FALSE,
          list |-> Concat([i \in 1..Len(contacts_in) |->
                             ContactSuggestions(user_id, contacts_in[i], tool)])]

\* filter_by(user_id=user_id, status="pending") selecting every user's rows
PendingOf_AnyUser(user_id) == { x \in suggestions : x.status = "pending" }

\* the rows filter_by(user_id=user_id, status="pending") selects
PendingOf(user_id) == { x \in suggestions : x.user_id = user_id /\ x.status = "pending" }

\* the rows the commit inserts: ids from the serial, in the order of the list
Inserted(gen) ==
    { [id |-> nextSuggestionId + i] @@ gen[i] : i \in 1..Len(gen) }

\* the commit fails on suggestions.contact_id NOT NULL or on the foreign key
\* suggestions.user_id
CommitFails(gen, user_id) ==
    gen # <<>> /\ (~UserExists(user_id) \/ \E i \in 1..Len(gen) : gen[i].contact_id = NoId)

\* POST /api/suggestions/analyze. The bulk delete, the inserts and the commit
\* are one transaction: an exception before the commit leaves the table as
\* it was (the session is closed after the request).
analyze_contacts(contacts_in) ==
    IF session = NoSession
    THEN Answer("analyze_contacts", "error", 401, "Not authenticated", {})
    ELSE IF contacts_in = <<>>
    THEN Answer("analyze_contacts", "error", 400, "No contacts provided", {})
    ELSE \E tool \in ExploriumOutcomes :
         LET result == generate_ai_suggestions(contacts_in, session, tool)
             gen == result.list
         IN
         IF result.raised
         THEN Answer("analyze_contacts", "raise", 500, "", {})
         ELSE IF CommitFails(gen, session)
         THEN Answer("analyze_contacts", "raise", 500, "", {})
         ELSE /\ suggestions' = (suggestions \ PendingOf(session)) \cup Inserted(gen)
              /\ nextSuggestionId' = nextSuggestionId + Len(gen)
              /\ SetLast("analyze_contacts", "http", session, "success", 200, "",
                         Inserted(gen))
              /\ UNCHANGED <<dbVars, session, predictorVars, feedbackVars,
                             workflowVars>>

\* the learning step the approve and reject routes share; the suggested
\* values here either are "split_contact", "merge_with" or hold neither word
LearnFrom(suggestion, approved) ==
    IF suggestion.field_name = "action" /\ suggestion.suggested_value = "split_contact"
    THEN LearnPatterns("split", [confidence |-> suggestion.confidence], approved)
    ELSE IF suggestion.field_name = "action" /\ suggestion.suggested_value = "merge_with"
    THEN LearnPatterns("merge", [confidence |-> suggestion.confidence], approved)
    ELSE UNCHANGED predictorVars

\* POST /api/suggestions/<id>/approve and /reject
decide_suggestion(route, suggestion_id, status, approved) ==
    IF session = NoSession
    THEN Answer(route, "error", 401, "Not authenticated", suggestion_id)
    ELSE LET found == { x \in suggestions : x.id = suggestion_id /\ x.user_id = session } IN
         IF found = {}
         THEN Answer(route, "error", 404, "Suggestion not found", suggestion_id)
         ELSE LET suggestion == CHOOSE x \in found : TRUE IN
              /\ LearnFrom(suggestion, approved)
              /\ suggestions' = (suggestions \ {suggestion})
                                \cup {[suggestion EXCEPT !.status = status]}
              /\ SetLast(route, "http", session, "success", 200, "", suggestion_id)
              /\ UNCHANGED <<dbVars, session, nextSuggestionId, feedbackVars,
                             workflowVars>>

approve_suggestion(suggestion_id) ==
    decide_suggestion("approve_suggestion", suggestion_id, "approved", TRUE)
reject_suggestion(suggestion_id) ==
    decide_suggestion("reject_suggestion", suggestion_id, "rejected", FALSE)

\* the "action" values of bulk_action requests
BulkActions == {"approve", "reject", "archive"}

\* POST /api/suggestions/bulk_action: sets the status of the user's
\* suggestions among suggestion_ids; the predictor is not called
bulk_action(suggestion_ids, action) ==
    IF session = NoSession
    THEN Answer("bulk_action", "error", 401, "Not authenticated", suggestion_ids)
    ELSE IF suggestion_ids = {} \/ action \notin {"approve", "reject"}
    THEN Answer("bulk_action", "error", 400, "Invalid request", suggestion_ids)
    ELSE LET status == IF action = "approve" THEN "approved" ELSE "rejected"
             found == { x \in suggestions : x.id \in suggestion_ids /\ x.user_id = session }
         IN /\ suggestions' = (suggestions \ found)
                              \cup { [x EXCEPT !.status = status] : x \in found }
            /\ SetLast("bulk_action", "http", session, "success", 200, "", suggestion_ids)
            /\ UNCHANGED <<dbVars, session, nextSuggestionId, predictorVars, feedbackVars,
                             workflowVars>>

\* GET /api/suggestions/list
list_suggestions(status) ==
    IF session = NoSession
    THEN Answer("list_suggestions", "error", 401, "Not authenticated", {})
    ELSE Answer("list_suggestions", "success", 200, "",
                { x \in suggestions : x.user_id = session /\ x.status = status })

\* the table earlier analyze, approve and reject requests of both users left
EarlierSuggestions ==
    { [id |-> 1] @@ Generated(1, "c1", "action", "split_contact", 80, "AI Predictor"),
      [[id |-> 2] @@ Generated(1, "c1", "organization", "ACME", 70, "NLU")
         EXCEPT !.status = "approved"],
      [id |-> 3] @@ Generated(2, "c9", "action", "merge_with", 95, "AI Predictor"),
      [[id |-> 4] @@ Generated(2, "c9", "title", "job", 90, "Explorium")
         EXCEPT !.status = "rejected"] }

InitSuggestions ==
    /\ users = { RegisteredUser(i, EmailOf(i), "pw", "N") : i \in ServiceUsers }
    /\ nextUserId = Cardinality(ServiceUsers)
    /\ session \in {NoSession} \cup ServiceUsers
    /\ contacts = {InitialContact}
    /\ nextContactId = 1
    /\ relationships = {}
    /\ nextRelationshipId = 0
    /\ history = <<>>
    /\ \/ NoSuggestions
       \/ suggestions = EarlierSuggestions /\ nextSuggestionId = 4
    /\ FeedbackNotStarted
    /\ NoOrchestration
    /\ merge_patterns = EmptyPatterns
    /\ split_patterns = EmptyPatterns
    /\ rejection_patterns = EmptyPatterns
    /\ last = NoLast
    /\ steps = 0

SuggestionStatuses == {"pending", "approved", "rejected"}

AnalyzeContacts ==
    /\ Step
    /\ \E contacts_in \in AnalyzeInputs : analyze_contacts(contacts_in)
ApproveSuggestion ==
    /\ Step
    /\ \E suggestion_id \in 1..(nextSuggestionId + 1) : approve_suggestion(suggestion_id)
RejectSuggestion ==
    /\ Step
    /\ \E suggestion_id \in 1..(nextSuggestionId + 1) : reject_suggestion(suggestion_id)
ListSuggestions ==
    /\ Step
    /\ \E status \in SuggestionStatuses : list_suggestions(status)
BulkAction ==
    /\ Step
    /\ \E suggestion_ids \in SUBSET (1..2), action \in BulkActions :
        bulk_action(suggestion_ids, action)

NextSuggestions ==
    \/ AnalyzeContacts
    \/ ApproveSuggestion
    \/ RejectSuggestion
    \/ ListSuggestions
    \/ BulkAction
    \/ RouteCreateContact

SpecSuggestions == InitSuggestions /\ [][NextSuggestions]_vars

\* ------------------------------------------------------- feedback_service
\* data.get(key) of a key the JSON object does not have
Absent == "<absent>"
\* request.get_json() of the body `null`
JsonNull == [t |-> "None"]
JsonObject(user_id, feedback_text, source) ==
    [t |-> "dict", user_id |-> user_id, feedback_text |-> feedback_text, source |-> source]

\* the JSON bodies posted to /api/feedback
FeedbackPayloads ==
    { JsonNull,
      JsonObject(Absent, Absent, Absent),
      JsonObject("u1", "txt", Absent),
      JsonObject(Absent, Absent, "web"),
      JsonObject(Absent, "", "web"),
      JsonObject(Absent, "txt", "web"),
      JsonObject("u1", "txt", "web") }

\* `not data`: None or the empty object
EmptyPayload(data) ==
    data.t = "None"
    \/ (data.user_id = Absent /\ data.feedback_text = Absent /\ data.source = Absent)

\* `not v` of a value data.get returned: None or the empty string
Falsy(v) == v \in {Absent, ""}

\* a validation that looks at feedback_text only
MissingRequired_TextOnly(data) == Falsy(data.feedback_text)

\* `if not feedback_text or not source`
MissingRequired(data) == Falsy(data.feedback_text) \/ Falsy(data.source)

\* the row submit_feedback adds: user_id is NULL when the key is missing
NewFeedback(rows, data) ==
    [id |-> Len(rows) + 1, user_id |-> data.user_id,
     feedback_text |-> data.feedback_text, source |-> data.source]

Respond(t, outcome, status, error) ==
    /\ last' = [op |-> "submit_feedback", user |-> NoSession, outcome |-> outcome,
                status |-> status, error |-> error, ref |-> payload[t]]
    /\ pc' = [pc EXCEPT ![t] = "idle"]
    /\ payload' = [payload EXCEPT ![t] = NoPayload]

\* a request arrives and a worker thread starts on it
Request(t, data) ==
    /\ pc[t] = "idle"
    /\ requests < MaxRequests
    /\ requests' = requests + 1
    /\ payload' = [payload EXCEPT ![t] = data]
    /\ pc' = [pc EXCEPT ![t] = "before_request"]
    /\ UNCHANGED <<feedback, tables_created, tables_created_lock, create_all_calls, last>>

\* entering the with block without waiting for the lock
acquire_NoWait(t) ==
    /\ pc[t] = "before_request"
    /\ tables_created_lock' = t
    /\ pc' = [pc EXCEPT ![t] = "locked"]
    /\ UNCHANGED <<feedback, tables_created, create_all_calls, payload, requests, last>>

\* create_tables: `with app.tables_created_lock:` blocks until the lock is free
acquire(t) ==
    /\ pc[t] = "before_request"
    /\ tables_created_lock = NoThread
    /\ tables_created_lock' = t
    /\ pc' = [pc EXCEPT ![t] = "locked"]
    /\ UNCHANGED <<feedback, tables_created, create_all_calls, payload, requests, last>>

\* `if not hasattr(app, 'tables_created'):`
check_tables_created(t) ==
    /\ pc[t] = "locked"
    /\ pc' = [pc EXCEPT ![t] = IF tables_created THEN "release" ELSE "create_all"]
    /\ UNCHANGED <<feedback, tables_created, tables_created_lock, create_all_calls,
                   payload, requests, last>>

\* `db.create_all()`
create_all(t) ==
    /\ pc[t] = "create_all"
    /\ create_all_calls' = create_all_calls + 1
    /\ pc' = [pc EXCEPT ![t] = "set_flag"]
    /\ UNCHANGED <<feedback, tables_created, tables_created_lock, payload, requests, last>>

\* `app.tables_created = True`
set_tables_created(t) ==
    /\ pc[t] = "set_flag"
    /\ tables_created' = TRUE
    /\ pc' = [pc EXCEPT ![t] = "release"]
    /\ UNCHANGED <<feedback, tables_created_lock, create_all_calls, payload, requests, last>>

\* leaving the with block; the request handler runs next
release(t) ==
    /\ pc[t] = "release"
    /\ tables_created_lock' = NoThread
    /\ pc' = [pc EXCEPT ![t] = "handler"]
    /\ UNCHANGED <<feedback, tables_created, create_all_calls, payload, requests, last>>

\* POST /api/feedback
submit_feedback(t) ==
    /\ pc[t] = "handler"
    /\ LET data == payload[t] IN
       IF EmptyPayload(data)
       THEN /\ Respond(t, "error", 400, "Invalid JSON payload")
            /\ UNCHANGED feedback
       ELSE IF MissingRequired(data)
       THEN /\ Respond(t, "error", 400, "Missing required fields: feedback_text and source")
            /\ UNCHANGED feedback
       ELSE /\ feedback' = Append(feedback, NewFeedback(feedback, data))
            /\ Respond(t, "success", 201, "")
    /\ UNCHANGED <<tables_created, tables_created_lock, create_all_calls, requests>>

InitFeedback ==
    /\ users = {}
    /\ nextUserId = 0
    /\ session = NoSession
    /\ contacts = {}
    /\ nextContactId = 0
    /\ relationships = {}
    /\ nextRelationshipId = 0
    /\ history = <<>>
    /\ NoSuggestions
    /\ FeedbackNotStarted
    /\ NoOrchestration
    /\ merge_patterns = EmptyPatterns
    /\ split_patterns = EmptyPatterns
    /\ rejection_patterns = EmptyPatterns
    /\ last = NoLast
    /\ steps = 0

\* what no step of the feedback service touches
mainVars == <<dbVars, session, predictorVars, suggestionVars, workflowVars, steps>>

FbRequest == (\E t \in Threads, data \in FeedbackPayloads : Request(t, data)) /\ UNCHANGED mainVars
FbAcquire == (\E t \in Threads : acquire(t)) /\ UNCHANGED mainVars
FbCheck == (\E t \in Threads : check_tables_created(t)) /\ UNCHANGED mainVars
FbCreateAll == (\E t \in Threads : create_all(t)) /\ UNCHANGED mainVars
FbSetFlag == (\E t \in Threads : set_tables_created(t)) /\ UNCHANGED mainVars
FbRelease == (\E t \in Threads : release(t)) /\ UNCHANGED mainVars
FbSubmit == (\E t \in Threads : submit_feedback(t)) /\ UNCHANGED mainVars

NextFeedback ==
    \/ FbRequest
    \/ FbAcquire
    \/ FbCheck
    \/ FbCreateAll
    \/ FbSetFlag
    \/ FbRelease
    \/ FbSubmit

SpecFeedback == InitFeedback /\ [][NextFeedback]_vars

\* ------------------------------------------- orchestrator, bots and workflows
\* Values are records [text, arg]: the text of a message or "result", and the
\* strings formatted into it.
\* what a skill or an endpoint does when called: return its value or raise
Callables == {"returns", "raises"}
CallResult(name) == [text |-> "result", arg |-> <<name>>]

\* -- service_registry.py
Service(name, endpoint) == [name |-> name, endpoint |-> endpoint]
ServiceNames == {"crm"}
get_service(name) == IF name \in DOMAIN services THEN services[name] ELSE PyNone
\* Orchestrator.register_service: ServiceRegistry.register
register_service(service) ==
    /\ Step
    /\ services' = [n \in DOMAIN services \cup {service.name} |->
                      IF n = service.name THEN service ELSE services[n]]
    /\ last' = [op |-> "register_service", user |-> 0, outcome |-> "return", status |-> 0,
                error |-> "", ref |-> service.name]
    /\ UNCHANGED <<bots, feedback_data>>

\* -- bot_framework.py
TaskTypes == {"greet", "sum"}
NoSkills == [k \in {} |-> "returns"]
\* bot specifications: 'id' may be missing, 'skills' may be missing (None)
BotSpecs ==
    { [id |-> i, skills |-> s] :
        i \in {Absent, "helper"},
        s \in {PyNone} \cup { [t |-> "dict", v |-> [k \in {"greet"} |-> c]] : c \in Callables } }
\* Bot.__init__: self.skills = skills or {}
Bot(id, skills) == [id |-> id, skills |-> IF skills.t = "None" THEN NoSkills ELSE skills.v]
get_bot(bot_id) == IF bot_id \in DOMAIN bots THEN bots[bot_id] ELSE PyNone
\* Bot.perform_task: [raised, value]
perform_task(bot, task) ==
    IF task.type \in DOMAIN bot.skills
    THEN IF bot.skills[task.type] = "raises"
         THEN [raised |-> TRUE, value |-> CallResult(task.type)]
         ELSE [raised |-> FALSE, value |-> CallResult(task.type)]
    ELSE [raised |-> FALSE,
          value |-> [text |-> "Bot {id} cannot perform task type: {type}",
                     arg |-> <<bot.id, task.type>>]]
\* BotManager.assign_task: [raised, value]
assign_task(bot_id, task) ==
    IF get_bot(bot_id) # PyNone
    THEN perform_task(get_bot(bot_id), task)
    ELSE [raised |-> FALSE,
          value |-> [text |-> "No bot found with id: {bot_id}", arg |-> <<bot_id>>]]
\* BotManager.create_bot, through Orchestrator.create_bot
create_bot(bot_spec) ==
    LET bot_id == IF bot_spec.id = Absent
                  THEN "bot-" \o ToString(Cardinality(DOMAIN bots) + 1)
                  ELSE bot_spec.id
        bot == Bot(bot_id, bot_spec.skills)
    IN /\ Step
       /\ bots' = [b \in DOMAIN bots \cup {bot_id} |-> IF b = bot_id THEN bot ELSE bots[b]]
       /\ last' = [op |-> "create_bot", user |-> 0, outcome |-> "return", status |-> 0,
                   error |-> "", ref |-> bot_id]
       /\ UNCHANGED <<services, feedback_data>>

\* -- workflow_engine.py
\* the steps a client sends: a bot step, a bot step that asks for approval, a
\* service step and a step of a type the engine does not know
BotStep(bot_id, task_type, approval) ==
    [type |-> "bot", approval_required |-> approval, bot_id |-> bot_id,
     task |-> [type |-> task_type], service_name |-> Absent]
ServiceStep(service_name) ==
    [type |-> "service", approval_required |-> FALSE, bot_id |-> Absent,
     task |-> [type |-> Absent], service_name |-> service_name]
OtherStep(type) ==
    [type |-> type, approval_required |-> FALSE, bot_id |-> Absent,
     task |-> [type |-> Absent], service_name |-> Absent]
WorkflowSteps ==
    {BotStep("bot-1", "greet", FALSE), BotStep("helper", "sum", TRUE),
     ServiceStep("crm"), OtherStep("notify")}
\* workflow definitions of up to two steps, and one without the key 'steps'
Workflows ==
    { [has_steps |-> TRUE, steps |-> s] :
        s \in {<<>>} \cup { <<a>> : a \in WorkflowSteps }
                     \cup { <<a, b>> : a \in WorkflowSteps, b \in WorkflowSteps } }
    \cup { [has_steps |-> FALSE, steps |-> <<>>] }

\* WorkflowEngine.wait_for_approval: the stub approves everything
wait_for_approval(step) == TRUE

Result(key, value) == [key |-> key, value |-> value]

\* one pass of the loop body of WorkflowEngine.run: [raised, out], out being
\* what the pass appends to results
RunStep(step) ==
    IF step.approval_required /\ ~wait_for_approval(step)
    THEN [raised |-> FALSE,
          out |-> <<Result(step.type, [text |-> "Rejected", arg |-> <<>>])>>]
    ELSE IF step.type = "bot"
    THEN LET r == assign_task(step.bot_id, step.task)
         IN [raised |-> r.raised, out |-> <<Result(step.bot_id, r.value)>>]
    ELSE IF step.type = "service"
    THEN LET service == get_service(step.service_name)
         IN IF service # PyNone
            THEN [raised |-> service.endpoint = "raises",
                  out |-> <<Result(service.name, CallResult(service.name))>>]
            ELSE [raised |-> FALSE,
                  out |-> <<Result(step.service_name,
                                   [text |-> "Service not found", arg |-> <<>>])>>]
    ELSE [raised |-> FALSE, out |-> <<>>]

\* the loop of WorkflowEngine.run over steps[i..]: [raised, results]
RECURSIVE RunFrom(_, _)
RunFrom(steps_, i) ==
    IF i > Len(steps_) THEN [raised |-> FALSE, results |-> <<>>]
    ELSE LET r == RunStep(steps_[i])
         IN IF r.raised THEN [raised |-> TRUE, results |-> <<>>]
            ELSE LET rest == RunFrom(steps_, i + 1)
                 IN [raised |-> rest.raised, results |-> r.out \o rest.results]

\* WorkflowEngine.run: parse asserts 'steps' in workflow_def
run(workflow_def) ==
    IF ~workflow_def.has_steps THEN [raised |-> TRUE, results |-> <<>>]
    ELSE RunFrom(workflow_def.steps, 1)

\* -- adaptive_learning.py
FeedbackRecord(agent_id, result, success) ==
    [agent_id |-> agent_id, result |-> result, success |-> success]

\* -- orchestrator.py: Orchestrator.run_workflow
run_workflow(workflow_def) ==
    LET r == run(workflow_def)
    IN /\ Step
       /\ IF r.raised
          THEN /\ last' = [op |-> "run_workflow", user |-> 0, outcome |-> "raise",
                           status |-> 0, error |-> "exception",
                           ref |-> [steps |-> workflow_def.steps, results |-> <<>>]]
               /\ UNCHANGED feedback_data
          ELSE /\ feedback_data' =
                     Append(feedback_data, FeedbackRecord("workflow", r.results, TRUE))
               /\ last' = [op |-> "run_workflow", user |-> 0, outcome |-> "return",
                           status |-> 0, error |-> "",
                           ref |-> [steps |-> workflow_def.steps, results |-> r.results]]
       /\ UNCHANGED <<bots, services>>

\* what no call on the orchestrator touches
appVars == <<dbVars, session, predictorVars, suggestionVars, feedbackVars>>

InitWorkflow ==
    /\ users = {}
    /\ nextUserId = 0
    /\ session = NoSession
    /\ contacts = {}
    /\ nextContactId = 0
    /\ relationships = {}
    /\ nextRelationshipId = 0
    /\ history = <<>>
    /\ NoSuggestions
    /\ FeedbackNotStarted
    /\ NoOrchestration
    /\ merge_patterns = EmptyPatterns
    /\ split_patterns = EmptyPatterns
    /\ rejection_patterns = EmptyPatterns
    /\ last = NoLast
    /\ steps = 0

RegisterService ==
    (\E n \in ServiceNames, e \in Callables : register_service(Service(n, e))) /\ UNCHANGED appVars
CreateBot == (\E bot_spec \in BotSpecs : create_bot(bot_spec)) /\ UNCHANGED appVars
RunWorkflow == (\E workflow_def \in Workflows : run_workflow(workflow_def)) /\ UNCHANGED appVars

NextWorkflow ==
    \/ RegisterService
    \/ CreateBot
    \/ RunWorkflow

SpecWorkflow == InitWorkflow /\ [][NextWorkflow]_vars

\* ------------------------------------------------------------------ claims
\* C1: the history log is append-only: no operation of HistoryService or of
\* ContactManagementService changes or removes an entry that exists; every
\* step keeps the entries it found, in place, and can only add entries.
C1_HistoryAppendOnly ==
    [][/\ Len(history') >= Len(history)
       /\ \A i \in 1..Len(history) : history'[i] = history[i]]_vars

\* an undo has been logged after an earlier entry while contacts were mutated
C1_Witness ==
    /\ Len(history) >= 2
    /\ last.op = "undo_action" /\ last.outcome = "success"
    /\ history[Len(history)].action_type = "undo"
    /\ contacts # {InitialContact}

\* what a stored snapshot decodes to; a missing snapshot is an empty one
RECURSIVE DecodeAll(_)
DecodeAll(v) == IF v.t = "str" THEN DecodeAll(v.json) ELSE v
Snap(v) == IF Truthy(DecodeAll(v)) THEN DecodeAll(v) ELSE EmptyDict

RowSnapshot(store, cid) ==
    IF \E c \in store : c.id = cid
    THEN to_dict(CHOOSE c \in store : c.id = cid) ELSE EmptyDict

\* C2: every contact mutation committed to the contact store appends, for each
\* contact it created, changed or deleted, a history entry holding that
\* contact's state before and after the mutation.
C2_EveryMutationLogged ==
    [][\A cid \in { c.id : c \in contacts \cup contacts' } :
          RowSnapshot(contacts, cid) # RowSnapshot(contacts', cid)
          => \E i \in (Len(history) + 1)..Len(history') :
                /\ history'[i].contact_id = cid
                /\ Snap(history'[i].before_data) = RowSnapshot(contacts, cid)
                /\ Snap(history'[i].after_data) = RowSnapshot(contacts', cid)]_vars

\* C3: after undo_action succeeds for a history entry, the stored state of
\* the contact the entry refers to equals the entry's before snapshot.
C3_UndoRestoresBefore ==
    (last.op = "undo_action" /\ last.outcome = "success")
    => RowSnapshot(contacts, history[last.ref].contact_id)
         = json_loads(history[last.ref].before_data)

\* the routes decorated with @login_required
ProtectedRoutes ==
    {"create_contact", "update_contact", "delete_contact", "split_phone",
     "split_all", "merge_contacts"} \cup HistoryRoutes \cup RelationshipRoutes

\* C4: with no user_id in the session, no request other than register and
\* login changes the users, contacts, relationships or history store.
C4_StoreChangesNeedSession ==
    [][(session = NoSession /\ last'.op \notin {"register", "login"})
         => UNCHANGED <<users, contacts, relationships, history>>]_vars

\* C5: a route under login_required whose request comes with no user_id in
\* the session, or with the user_id of a user that has no row, is answered
\* 401 and leaves contacts, relationships and history as they were; the
\* handler runs only for a session user that exists.
C5_LoginRequired ==
    [][(last'.op \in ProtectedRoutes /\ ~(session # NoSession /\ UserExists(session)))
         => /\ last'.status = 401
            /\ last'.outcome = "unauthorized"
            /\ UNCHANGED <<contacts, relationships, history>>]_vars

\* a contact request was refused because the session names a user without a row
C5_Witness ==
    /\ last.op = "create_contact" /\ last.status = 401
    /\ last.error = "User not found"
    /\ session # NoSession /\ ~UserExists(session)

\* C6: a successful register or login makes the session identify the user of
\* the email sent, logout clears it, and every other request, a failed
\* register or login included, leaves it unchanged; /me is answered 401
\* 'Not authenticated' when the session has no user_id.
C6_SessionFollowsAuth ==
    [][/\ (last'.op \in {"register", "login"} /\ last'.outcome = "success")
            => \E x \in users' : x.email = last'.ref /\ session' = x.id
       /\ last'.op = "logout" => session' = NoSession
       /\ ~(last'.op \in {"register", "login"} /\ last'.outcome = "success")
            /\ last'.op # "logout" => session' = session
       /\ (last'.op = "get_current_user" /\ session = NoSession)
            => last'.status = 401 /\ last'.error = "Not authenticated"]_vars

\* a logged-in client sent a login that failed and is still logged in
C6_Witness ==
    /\ last.op = "login" /\ last.status = 401
    /\ last.error = "Invalid email or password"
    /\ session # NoSession /\ UserExists(session)

C8_UpdateDuplicateEmail409 ==
    [][(/\ last'.op = "update_user"
        /\ UserExists(last'.ref.id)
        /\ \E x \in users : x.id # last'.ref.id /\ x.email = last'.ref.email)
         => last'.status = 409 /\ users' = users]_vars

\* the predictor as constructed: no pattern learned
FreshPredictor ==
    [merge_patterns |-> EmptyPatterns, split_patterns |-> EmptyPatterns,
     rejection_patterns |-> EmptyPatterns]

C10_IdenticalAboveNineTenths ==
    (/\ last.op = "calculate_merge_probability"
     /\ last.ref[1] = last.ref[2]
     /\ last.ref[1].fullName # NoText
     /\ Valued(last.ref[1].emails) # <<>>
     /\ Valued(last.ref[1].phones) # <<>>)
    => 10 * last.outcome.score > 9 * last.outcome.max_score

\* the lower-cased valued emails and the normalised valued phones of a record
EmailSet(contact) == { lower(e) : e \in Range(Valued(contact.emails)) }
PhoneSet(contact) == { NormalizePhone(p) : p \in Range(Valued(contact.phones)) }

\* the names differ: not equal, neither holds the other, no fuzzy match
NamesDiffer(contact1, contact2) ==
    LET name1 == lower(contact1.fullName)
        name2 == lower(contact2.fullName)
    IN /\ name1 # name2
       /\ ~Contains(name1, name2) /\ ~Contains(name2, name1)
       /\ ~_fuzzy_match(name1, name2)

\* C11: for two records with different names, no email in common and no
\* phone in common, calculate_merge_probability is exactly 0.0.
C11_NoOverlapIsZero ==
    (/\ last.op = "calculate_merge_probability"
     /\ NamesDiffer(last.ref[1], last.ref[2])
     /\ EmailSet(last.ref[1]) \cap EmailSet(last.ref[2]) = {}
     /\ PhoneSet(last.ref[1]) \cap PhoneSet(last.ref[2]) = {})
    => last.outcome.score = 0

\* C12: for two records that share an email, whose names only fuzzy-match
\* (same first three characters, neither holds the other) and that have no
\* phone in common, calculate_merge_probability is strictly above 0.4.
C12_FuzzySharedEmailAboveFourTenths ==
    (/\ last.op = "calculate_merge_probability"
     /\ Range(Valued(last.ref[1].emails)) \cap Range(Valued(last.ref[2].emails)) # {}
     /\ LET name1 == lower(last.ref[1].fullName)
            name2 == lower(last.ref[2].fullName)
        IN /\ name1 # name2
           /\ ~Contains(name1, name2) /\ ~Contains(name2, name1)
           /\ Len(name1) > 3 /\ Len(name2) > 3
           /\ SubSeq(name1, 1, 3) = SubSeq(name2, 1, 3)
     /\ PhoneSet(last.ref[1]) \cap PhoneSet(last.ref[2]) = {})
    => 10 * last.outcome.score > 4 * last.outcome.max_score

Count(table, key) == IF key \in DOMAIN table THEN table[key] ELSE 0

\* C14: learn_from_feedback with type 'merge' or 'split' adds exactly one to
\* exactly one counter, the one keyed by the JSON of the features: in
\* merge_patterns when approved and 'merge', in split_patterns when approved
\* and 'split', in rejection_patterns when not approved; every other counter
\* of the three tables keeps its value, and no step lowers a counter.
C14_LearnIncrementsOneCounter ==
    [][LET keys == DOMAIN merge_patterns \cup DOMAIN split_patterns
                   \cup DOMAIN rejection_patterns \cup DOMAIN merge_patterns'
                   \cup DOMAIN split_patterns' \cup DOMAIN rejection_patterns'
       IN /\ \A k \in keys :
                /\ Count(merge_patterns', k) >= Count(merge_patterns, k)
                /\ Count(split_patterns', k) >= Count(split_patterns, k)
                /\ Count(rejection_patterns', k) >= Count(rejection_patterns, k)
          /\ last'.op = "learn_from_feedback" =>
                LET key == last'.ref.key
                    target == IF ~last'.ref.approved THEN "rejection"
                              ELSE last'.ref.suggestion_type
                    Added(name, k) == IF name = target /\ k = key THEN 1 ELSE 0
                IN /\ key = json_dumps(last'.ref.features)
                   /\ \A k \in keys \cup {key} :
                        /\ Count(merge_patterns', k)
                             = Count(merge_patterns, k) + Added("merge", k)
                        /\ Count(split_patterns', k)
                             = Count(split_patterns, k) + Added("split", k)
                        /\ Count(rejection_patterns', k)
                             = Count(rejection_patterns, k) + Added("rejection", k)]_vars

\* the same features were approved for a merge twice and then rejected
C14_Witness ==
    /\ last.op = "learn_from_feedback" /\ ~last.ref.approved
    /\ Count(merge_patterns, last.ref.key) = 2
    /\ Count(rejection_patterns, last.ref.key) = 1

\* a step of merge_contacts that found at least two contacts of the caller
MergeStep == last'.op = "merge_contacts" /\ last'.error = ""

\* the contacts a merge works on: the primary and the ones merged into it
MergeGroup(ref) == {ref.primary} \cup ref.merged

\* C15: after merge_contacts has merged contacts, every relationship that
\* referenced a merged-away contact (and a contact outside the merge at its
\* other end) references the primary contact instead, and no relationship
\* of the user refers to a contact that no longer exists.
C15_MergeRepointsRelationships ==
    [][MergeStep
         => LET ref == last'.ref
                Repoint(cid) == IF cid \in ref.merged THEN ref.primary ELSE cid
            IN /\ \A r \in relationships :
                    ( /\ {r.contact_id_1, r.contact_id_2} \cap ref.merged # {}
                      /\ ~({r.contact_id_1, r.contact_id_2} \subseteq MergeGroup(ref)) )
                    => \E r2 \in relationships' :
                          /\ r2.id = r.id
                          /\ r2.contact_id_1 = Repoint(r.contact_id_1)
                          /\ r2.contact_id_2 = Repoint(r.contact_id_2)
               /\ \A r \in relationships' :
                    r.user_id = last'.user
                    => \A cid \in {r.contact_id_1, r.contact_id_2} :
                          \E c \in contacts' : c.id = cid]_vars

\* C16: when merge_contacts merges two contacts that a relationship links to
\* each other, that relationship is deleted by the merge.
C16_MergeDeletesSelfReference ==
    [][MergeStep
         => \A r \in relationships :
               {r.contact_id_1, r.contact_id_2} \subseteq MergeGroup(last'.ref)
               => ~\E r2 \in relationships' : r2.id = r.id]_vars

\* C17: analyze_contacts replaces exactly the requesting user's pending
\* suggestions: after a call answered 200 the user's pending suggestions are
\* exactly the rows this call generated, the user's approved and rejected
\* suggestions and every other user's suggestions are as before; a call
\* answered 401 (no session user) or 400 (empty contact list) changes nothing.
C17_AnalyzeReplacesPending ==
    [][last'.op = "analyze_contacts"
         => LET Mine(table) == { x \in table : x.user_id = last'.user /\ x.status = "pending" }
            IN /\ last'.status = 200
                    => /\ Mine(suggestions') = last'.ref
                       /\ last'.ref \cap suggestions = {}
                       /\ suggestions' \ Mine(suggestions') = suggestions \ Mine(suggestions)
               /\ last'.status \in {400, 401}
                    => UNCHANGED <<dbVars, suggestionVars, predictorVars>>]_vars

\* user 1's pending suggestion 1 has been replaced by newly generated ones
\* while user 1's approved suggestion and user 2's pending one are stored
C17_Witness ==
    /\ last.op = "analyze_contacts" /\ last.status = 200 /\ last.user = 1
    /\ last.ref # {}
    /\ ~\E x \in suggestions : x.id = 1
    /\ \E x \in suggestions : x.user_id = 1 /\ x.status = "approved"
    /\ \E x \in suggestions : x.user_id = 2 /\ x.status = "pending"

\* the step in which thread t runs the handler of its request
HandlerStep(t) == pc[t] = "handler" /\ pc'[t] = "idle"

\* C18: the feedback endpoint stores a Feedback row and answers 201 exactly
\* when the JSON payload has non-empty feedback_text and source; a payload
\* missing either field, or an empty payload, is answered 400 and the
\* feedback table is unchanged.
C18_FeedbackValidation ==
    [][\A t \in Threads :
         HandlerStep(t)
         => LET data == payload[t]
                complete == /\ data.t = "dict"
                            /\ data.feedback_text \notin {Absent, ""}
                            /\ data.source \notin {Absent, ""}
            IN IF complete
               THEN /\ last'.status = 201
                    /\ Len(feedback') = Len(feedback) + 1
                    /\ \A i \in 1..Len(feedback) : feedback'[i] = feedback[i]
                    /\ feedback'[Len(feedback')].feedback_text = data.feedback_text
                    /\ feedback'[Len(feedback')].source = data.source
               ELSE /\ last'.status = 400
                    /\ feedback' = feedback]_vars

\* a payload with feedback_text but no source has been turned down after a
\* complete one was stored
C18_Witness ==
    /\ last.op = "submit_feedback" /\ last.status = 400
    /\ last.ref.t = "dict" /\ last.ref.feedback_text = "txt" /\ last.ref.source = Absent
    /\ Len(feedback) = 1

\* C19: under any interleaving of concurrent requests db.create_all() runs at
\* most once, no request handler starts before the tables have been
\* created, and no two threads are past the tables_created check with the
\* flag seen unset.
C19_CreateAllOnce ==
    /\ create_all_calls <= 1
    /\ \A t \in Threads : pc[t] = "handler" => create_all_calls >= 1
    /\ \A t1, t2 \in Threads :
          (pc[t1] \in {"create_all", "set_flag"} /\ pc[t2] \in {"create_all", "set_flag"})
          => t1 = t2

\* one thread holds the lock between create_all and setting the flag while
\* the other has arrived and waits for the lock with the flag still unset
C19_Witness ==
    /\ create_all_calls = 1
    /\ \E t1, t2 \in Threads :
          /\ pc[t1] = "set_flag"
          /\ pc[t2] = "before_request"
          /\ tables_created_lock = t1
          /\ ~tables_created

\* every element of the list occurs once
Distinct(sq) == \A i, j \in 1..Len(sq) : sq[i] = sq[j] => i = j

\* C20: merge_contacts with fewer than two ids naming contacts of the caller
\* returns 'At least two contacts are required for merging' and changes
\* nothing; otherwise exactly the primary of the merged contacts remains,
\* the others are deleted, and the primary's emails, phones and tags hold
\* every email, phone and tag of every merged contact, each value once.
C20_MergeUnion ==
    [][last'.op = "merge_contacts"
         => IF last'.error # ""
            THEN /\ last'.error = "At least two contacts are required for merging"
                 /\ UNCHANGED <<contacts, relationships, history>>
            ELSE LET ref == last'.ref
                     group == { c \in contacts : c.id \in MergeGroup(ref) }
                 IN /\ Cardinality(group) >= 2
                    /\ \A c \in group : c.user_id = last'.user
                    /\ { c.id : c \in contacts' } = { c.id : c \in contacts } \ ref.merged
                    /\ \E p \in contacts' :
                          /\ p.id = ref.primary
                          /\ \A c \in group :
                                /\ Range(c.emails) \subseteq Range(p.emails)
                                /\ Range(c.phones) \subseteq Range(p.phones)
                                /\ Range(c.tags) \subseteq Range(p.tags)
                          /\ Distinct(p.emails) /\ Distinct(p.phones) /\ Distinct(p.tags)]_vars

\* C21: split_phone moves a phone number of the original contact into a new
\* contact and conserves phone numbers: a call that finds the original is
\* successful, the new contact holds exactly the split phone and no email,
\* the original no longer holds it, and the phones of the two together are
\* exactly the phones the original held before the call.
C21_SplitPhoneConserves ==
    [][(last'.op = "split_phone" /\ last'.error = "")
         => /\ last'.outcome = "success"
            /\ \E c \in contacts, c2, n \in contacts' :
                  /\ c.user_id = last'.user /\ c2.id = c.id
                  /\ n.id \notin { x.id : x \in contacts }
                  /\ Len(n.phones) = 1 /\ n.emails = <<>>
                  /\ n.phones[1] \in Range(c.phones)
                  /\ n.phones[1] \notin Range(c2.phones)
                  /\ Range(c2.phones) \cup Range(n.phones) = Range(c.phones)
                  /\ contacts' \ {c2, n} = contacts \ {c}]_vars

\* C22: split_all splits all emails and phone numbers of a contact into new
\* contacts: a call that finds the original is successful, the original no
\* longer exists, and every email and every phone the original held is held
\* by exactly one new contact that carries that single entry and nothing of
\* the other kind, so that the original's data survives in the store.
C22_SplitAllConserves ==
    [][(last'.op = "split_all" /\ last'.error = "")
         => /\ last'.outcome = "success"
            /\ \E c \in contacts :
                  LET new == { n \in contacts' : n.id \notin { x.id : x \in contacts } } IN
                  /\ c.id = last'.ref /\ c.user_id = last'.user
                  /\ ~\E x \in contacts' : x.id = c.id
                  /\ contacts' \ new = contacts \ {c}
                  /\ new # {}
                  /\ \A e \in Range(c.emails) :
                        Cardinality({ n \in new : n.emails = <<e>> /\ n.phones = <<>> }) = 1
                  /\ \A ph \in Range(c.phones) :
                        Cardinality({ n \in new : n.phones = <<ph>> /\ n.emails = <<>> }) = 1
                  /\ \A n \in new : Len(n.emails) + Len(n.phones) = 1]_vars

\* C23: undo_action fails without any effect when it cannot undo: for a
\* history id that does not exist or belongs to another user it returns
\* 'History entry not found', for an entry without a before snapshot it
\* returns 'No before data available for undo'; in both cases no history
\* entry is appended and no contact changes.
C23_UndoFailsWithoutEffect ==
    [][last'.op = "undo_action"
         => LET hid == last'.ref
                mine == { i \in 1..Len(history) :
                            history[i].id = hid /\ history[i].user_id = last'.user }
            IN /\ mine = {}
                    => /\ last'.outcome = "error"
                       /\ last'.error = "History entry not found"
                       /\ UNCHANGED <<history, contacts>>
               /\ (mine # {} /\ \A i \in mine : history[i].before_data = PyNone)
                    => /\ last'.outcome = "error"
                       /\ last'.error = "No before data available for undo"
                       /\ UNCHANGED <<history, contacts>>]_vars

\* an undo has been refused for an entry that exists but is another user's
C23_Witness ==
    /\ last.op = "undo_action" /\ last.error = "History entry not found"
    /\ \E i \in 1..Len(history) : history[i].id = last.ref /\ history[i].user_id # last.user

C25_ContactsIsolatedPerUser ==
    [][/\ \A c \in contacts : c.user_id # last'.user => c \in contacts'
       /\ \A c \in contacts, c2 \in contacts' : c2.id = c.id => c2.user_id = c.user_id]_vars

\* C26: a suggestion's status is always one of pending, approved, rejected,
\* and a decision is final: once a suggestion is approved or rejected no
\* later approve, reject or bulk_action request changes its status, and the
\* predictor learns from each suggestion at most once (a request for a
\* suggestion that is already decided leaves the learned patterns alone).
C26_DecisionIsFinal ==
    /\ [](\A x \in suggestions : x.status \in SuggestionStatuses)
    /\ [][/\ \A x \in suggestions, y \in suggestions' :
               (x.status # "pending" /\ y.id = x.id) => y.status = x.status
          /\ (/\ last'.op \in {"approve_suggestion", "reject_suggestion"}
              /\ \E x \in suggestions : x.id = last'.ref /\ x.status # "pending")
             => UNCHANGED predictorVars]_vars

\* C27: a run of the workflow engine that returns gives exactly one result for
\* each step, in step order: result i is keyed by the bot or the service that
\* step i names, also when that bot or service is unknown; and a run through
\* the orchestrator that returns appends exactly one feedback record, holding
\* those results.
C27_OneResultPerStep ==
    [][(/\ steps' # steps
        /\ last'.op = "run_workflow"
        /\ last'.outcome = "return")
       => /\ Len(last'.ref.results) = Len(last'.ref.steps)
          /\ \A i \in 1..Len(last'.ref.steps) :
                 LET step == last'.ref.steps[i]
                 IN (step.type = "bot" => last'.ref.results[i].key = step.bot_id)
                    /\ (step.type = "service"
                           => last'.ref.results[i].key = step.service_name)
          /\ Len(feedback_data') = Len(feedback_data) + 1
          /\ feedback_data'[Len(feedback_data')].result = last'.ref.results]_vars

====
